---- MODULE Spec2Model ----
(***************************************************************************)
(* Acquisition, caching, build and compatibility-verification pipeline of  *)
(* the ModSecurity installer.  The repository holds three installers that  *)
(* are run separately: install_modsecurity.py (monolithic), the modules/   *)
(* package driven by install.py, and legacy/install_modsecurity_original.  *)
(* Their parts (a resolver with its cache, the library builder, the nginx  *)
(* module installation) keep their state in different paths, so a          *)
(* behaviour is the history of the calls made to one part on one host.     *)
(*                                                                         *)
(* Every call is one action.  The operator that models a function returns  *)
(* the sequence of filesystem states the call passes through (its trace)   *)
(* and its return value; the action either runs the call to completion or  *)
(* kills the process after any prefix of the trace (ret = "killed").       *)
(***************************************************************************)
EXTENDS Integers, Sequences, FiniteSets, TLC

VARIABLES
    prog,       \* the part this history belongs to ("none" before the first call)
    call,       \* the last call: its name and its inputs
    ret,        \* what the last call returned
    log,        \* external commands the last call ran, in order
    dest,       \* content at the last call's destination / target path
    repoCache,  \* <repos_cache>/<repo_name>                     (install_modsecurity.py)
    gitCache,   \* <cache_dir>/git/<repo basename>               (modules/git_manager.py)
    fileCache,  \* <cache_dir>/files/<type>/<version>/<name>     (modules/downloader.py)
    host,       \* the nginx installation: module file, quarantine file, configuration
    repo,       \* the repository directory handed to init_git_submodules
    work,       \* the build working directory (<tmp>/modsecurity_build)
    slots       \* every file below <cache_dir>/files, by its path      (modules/cache_manager.py)

vars == <<prog, call, ret, log, dest, repoCache, gitCache, fileCache, host, repo, work, slots>>

----------------------------------------------------------------------------
(* Bounds *)

\* longest URL list handed to download_file_with_fallback
MaxUrls == 3

----------------------------------------------------------------------------
(* Filesystem contents.  kind: "absent" (no such path), "empty" (zero-byte  *)
(* file or empty directory), "partial" (a copy or clone that was cut       *)
(* short), "full" (a complete repository), "archive" (a complete file that *)
(* tar can list), "garbage" (a complete non-empty file that tar rejects).  *)
(* src: the mirror (index in the call's list) the content was fetched from *)
(* in the current call, 0 for content that predates the call.              *)

Absent == [kind |-> "absent", src |-> 0]

EmptyEntry == [kind |-> "empty", src |-> 0]

Partial(m) == [kind |-> "partial", src |-> m]

Full(m) == [kind |-> "full", src |-> m]

Aged(c) == [c EXCEPT !.src = 0]

\* os.path.exists(path)
path_exists(c) == c.kind # "absent"

\* os.listdir(dir) is non-empty / os.path.getsize(file) > 0
nonempty(c) == c.kind \notin {"absent", "empty"}

Last(tr) == tr[Len(tr)]

Cmd(c, m) == [cmd |-> c, m |-> m]

\* indices of a sequence
Idx(s) == 1..Len(s)

----------------------------------------------------------------------------
(* install_modsecurity.py: repository resolver                             *)

\* sources = ["primary", "secondary", "fallback"]
NumSources == 3

\* a mirror of a git repository: no URL configured, clone exits 0, clone exits non-zero
RepoMirrorKinds == {"unset", "up", "down"}

\* update_repo_cache(source_dir, cache_dir): rmtree, then copytree; every
\* exception is caught and logged.  putFail: "none", or the state copytree
\* leaves behind when it raises ("empty", "partial").
update_repo_cache(tr, putFail) ==
    LET s  == Last(tr)
        t1 == IF path_exists(s.cache) THEN Append(tr, [s EXCEPT !.cache = Absent]) ELSE tr
        e  == [s EXCEPT !.cache = EmptyEntry]
        p  == [s EXCEPT !.cache = Partial(s.dest.src)]
        f  == [s EXCEPT !.cache = s.dest]
    IN  CASE putFail = "none"  -> t1 \o <<e, p, f>>
          [] putFail = "empty" -> t1 \o <<e>>
          [] OTHER             -> t1 \o <<e, p>>

RECURSIVE try_sources(_, _, _, _)
\* the for loop of download_repo_with_fallback from source i on
try_sources(tr, urls, i, putFail) ==
    IF i > Len(urls) THEN [tr |-> tr, ret |-> "false"]
    ELSE IF urls[i] = "unset" THEN try_sources(tr, urls, i + 1, putFail)
    ELSE LET s == Last(tr) IN
         IF nonempty(s.dest)
         THEN \* git clone refuses a non-empty destination before any network access
              try_sources(Append(tr, [s EXCEPT !.log = Append(@, Cmd("clone_refused", i))]),
                          urls, i + 1, putFail)
         ELSE LET c == [s EXCEPT !.log = Append(@, Cmd("clone", i))] IN
              IF urls[i] = "up"
              THEN [tr  |-> update_repo_cache(
                                tr \o <<c, [c EXCEPT !.dest = Partial(i)],
                                           [c EXCEPT !.dest = Full(i)]>>, putFail),
                    ret |-> "true"]
              ELSE try_sources(Append(tr, c), urls, i + 1, putFail)

\* download_repo_with_fallback giving up after the primary source
download_repo_primary_only(tr, urls, force, putFail) ==
    LET s  == Last(tr)
        t1 == IF path_exists(s.dest) /\ force
              THEN Append(tr, [s EXCEPT !.dest = Absent])
              ELSE tr
    IN  try_sources(t1, SubSeq(urls, 1, 1), 1, putFail)

download_repo_with_fallback(tr, urls, force, putFail) ==
    LET s  == Last(tr)
        t1 == IF path_exists(s.dest) /\ force
              THEN Append(tr, [s EXCEPT !.dest = Absent])
              ELSE tr
    IN  try_sources(t1, urls, 1, putFail)

\* the cache check of clone_or_update_repo: the directory exists and os.listdir
\* of it is not empty
repo_cache_hit(c) == nonempty(c)

\* copyFail: "none", or where shutil.copytree(cache_dir, destination) raises:
\* "early" (nothing written), "midway" (a partial tree is left).
clone_or_update_repo(known, force, urls, copyFail, putFail, s0) ==
    IF ~known THEN [tr |-> <<s0>>, ret |-> "false"]
    ELSE IF path_exists(s0.dest) /\ ~force THEN [tr |-> <<s0>>, ret |-> "true"]
    ELSE LET s1 == IF path_exists(s0.cache) THEN s0
                   ELSE [s0 EXCEPT !.cache = EmptyEntry]      \* os.makedirs(cache_dir)
             p  == [s1 EXCEPT !.dest = Partial(0)]
         IN  IF repo_cache_hit(s1.cache) /\ ~force
             THEN CASE copyFail = "none"  ->
                         [tr |-> <<s0, s1, p, [s1 EXCEPT !.dest = s1.cache]>>, ret |-> "true"]
                    [] copyFail = "early" ->
                         download_repo_with_fallback(<<s0, s1>>, urls, force, putFail)
                    [] OTHER ->
                         download_repo_with_fallback(<<s0, s1, p>>, urls, force, putFail)
             ELSE download_repo_with_fallback(<<s0, s1>>, urls, force, putFail)

\* a call starts only between calls (no call in progress or finished and
\* not yet returned from)
Idle == call.op = "none"

CloneOrUpdateRepo ==
    /\ Idle
    /\ prog \in {"none", "repos"}
    /\ \E known \in BOOLEAN, force \in BOOLEAN,
          urls \in [1..NumSources -> RepoMirrorKinds],
          copyFail \in {"none", "early", "midway"},
          putFail \in {"none", "empty", "partial"},
          dest0 \in {Absent, Full(0)} :
          LET s0 == [dest |-> dest0, cache |-> repoCache, log |-> <<>>]
              r  == clone_or_update_repo(known, force, urls, copyFail, putFail, s0)
          IN  \E k \in Idx(r.tr) :
                /\ prog' = "repos"
                /\ call' = [op |-> "clone_or_update_repo", known |-> known,
                            force |-> force, urls |-> urls,
                            copyFail |-> copyFail, putFail |-> putFail,
                            hit |-> repo_cache_hit(s0.cache),
                            cache0 |-> s0.cache, dest0 |-> dest0]
                /\ ret' = IF k = Len(r.tr) THEN r.ret ELSE "killed"
                /\ log' = r.tr[k].log
                /\ dest' = r.tr[k].dest
                /\ repoCache' = r.tr[k].cache
                /\ UNCHANGED <<gitCache, fileCache, host, repo, work, slots>>

----------------------------------------------------------------------------
(* modules/git_manager.py: clone_git_repo, try_alternate_repo               *)

\* replace the current (last) state of a trace: a step that changes no file
Upd(tr, s) == [tr EXCEPT ![Len(tr)] = s]

Logged(s, c, m) == [s EXCEPT !.log = Append(@, Cmd(c, m))]

\* the repository's submodules as the call finds them: "none" (no .gitmodules),
\* "initialized" (git submodule status shows no '-' line), "init_ok" (some
\* are uninitialized, init and update succeed), "init_fail" (init or update,
\* or the status command itself and then init or update, exits non-zero)
SubKinds == {"none", "initialized", "init_ok", "init_fail"}

\* check_submodules_initialized, then git submodule init / update when it
\* returns False; raised: init or update raised CalledProcessError
submodules(s, sub) ==
    CASE sub = "none"        -> [s |-> s, raised |-> FALSE]
      [] sub = "initialized" -> [s |-> Logged(s, "submodule_status", 0), raised |-> FALSE]
      [] sub = "init_ok"     ->
            [s |-> Logged(Logged(Logged(s, "submodule_status", 0),
                                 "submodule_init", 0), "submodule_update", 0),
             raised |-> FALSE]
      [] OTHER               ->
            [s |-> Logged(Logged(s, "submodule_status", 0), "submodule_init", 0),
             raised |-> TRUE]

\* lines 144-201 and 226-283: copy the cache entry to the target, bring the
\* submodules up, fall back to a recursive clone when that raises.
\* ret "fall": the cache branch gave up, clone_git_repo goes on to the direct clone.
copy_from_cache(tr, m, up, env) ==
    LET a == Last(tr) IN
    CASE env.copyFail = "early"  -> [tr |-> tr, ret |-> "fall"]
      [] env.copyFail = "midway" ->
            [tr |-> Append(tr, [a EXCEPT !.dest = Partial(a.cache.src)]), ret |-> "fall"]
      [] OTHER ->
            LET t1 == tr \o <<[a EXCEPT !.dest = Partial(a.cache.src)],
                              [a EXCEPT !.dest = a.cache]>>
                r  == submodules(Last(t1), env.sub)
            IN  IF ~r.raised THEN [tr |-> Upd(t1, r.s), ret |-> "true"]
                ELSE LET b == [r.s EXCEPT !.dest = Absent]           \* shutil.rmtree(target_dir)
                         c == Logged(b, "clone", m)                 \* git clone --recursive
                     IN  IF up
                         THEN [tr  |-> Upd(t1, r.s) \o <<b, [c EXCEPT !.dest = Partial(m)],
                                                        [c EXCEPT !.dest = Full(m)]>>,
                               ret |-> "true"]
                         ELSE [tr |-> Upd(t1, r.s) \o <<c>>, ret |-> "fall"]

\* lines 118-204: the cache path exists.  git reset --hard HEAD succeeds in a
\* complete clone, fails in an empty directory, and may do either in a clone
\* that was cut short (env.resetOk).
use_cached_repo(tr, m, up, env) ==
    LET s       == Last(tr)
        resetOk == s.cache.kind = "full" \/ (s.cache.kind = "partial" /\ env.resetOk)
    IN  IF ~resetOk THEN [tr |-> Upd(tr, Logged(s, "reset", 0)), ret |-> "fall"]
        ELSE copy_from_cache(Upd(tr, Logged(Logged(s, "reset", 0), "pull", 0)), m, up, env)

\* lines 205-286: no cache path yet, clone into it first
create_cached_repo(tr, m, up, env) ==
    LET s == Last(tr)
        c == Logged(s, "clone", m)
    IN  IF ~up THEN [tr |-> Upd(tr, c), ret |-> "fall"]
        ELSE copy_from_cache(Upd(tr, c) \o <<[c EXCEPT !.cache = Partial(m)],
                                             [c EXCEPT !.cache = Full(m)]>>, m, up, env)

\* lines 330-347: rmtree the cache path, copytree the target into it; every
\* exception is caught and logged
backup_to_cache(tr, putFail) ==
    LET s  == Last(tr)
        t1 == IF path_exists(s.cache) THEN Append(tr, [s EXCEPT !.cache = Absent]) ELSE tr
        e  == [s EXCEPT !.cache = EmptyEntry]
        p  == [s EXCEPT !.cache = Partial(s.dest.src)]
        f  == [s EXCEPT !.cache = s.dest]
    IN  CASE putFail = "none"  -> t1 \o <<e, p, f>>
          [] putFail = "empty" -> t1 \o <<e>>
          [] OTHER             -> t1 \o <<e, p>>

\* lines 288-355: clone straight into the target directory
direct_clone(tr, m, up, use_cache, env) ==
    LET s == Last(tr) IN
    IF nonempty(s.dest)
    THEN \* git clone refuses a non-empty target: CalledProcessError, return False
         [tr |-> Upd(tr, Logged(s, "clone_refused", m)), ret |-> "false"]
    ELSE LET c == Logged(s, "clone", m) IN
         IF ~up THEN [tr |-> Upd(tr, c), ret |-> "false"]
         ELSE LET t1 == Upd(tr, c) \o <<[c EXCEPT !.dest = Partial(m)],
                                        [c EXCEPT !.dest = Full(m)]>>
                  t2 == Upd(t1, submodules(Last(t1), env.sub).s)
              IN  [tr  |-> IF use_cache THEN backup_to_cache(t2, env.putFail) ELSE t2,
                   ret |-> "true"]

\* the cache check of clone_git_repo: os.path.exists(cache_repo_path)
git_cache_hit(c) == path_exists(c)

clone_git_repo(tr0, m, up, use_cache, env) ==
    LET s  == Last(tr0)
        tr == IF path_exists(s.dest) THEN Append(tr0, [s EXCEPT !.dest = Absent]) ELSE tr0
        r  == IF ~use_cache THEN [tr |-> tr, ret |-> "fall"]
              ELSE IF git_cache_hit(s.cache) THEN use_cached_repo(tr, m, up, env)
              ELSE create_cached_repo(tr, m, up, env)
    IN  IF r.ret = "fall" THEN direct_clone(r.tr, m, up, use_cache, env) ELSE r

\* urls[1]: primary_url, urls[2]: fallback_url; both name the same repository,
\* so get_git_cache_path gives both the same cache path
try_alternate_repo(tr, urls, use_cache, env) ==
    LET r1 == clone_git_repo(tr, 1, urls[1] = "up", use_cache, env)
    IN  IF r1.ret = "true" THEN r1
        ELSE clone_git_repo(r1.tr, 2, urls[2] = "up", use_cache, env)

GitEnvs == [sub : SubKinds, copyFail : {"none", "early", "midway"},
            putFail : {"none", "empty", "partial"}, resetOk : BOOLEAN]

TryAlternateRepo ==
    /\ Idle
    /\ prog \in {"none", "git_manager"}
    /\ \E urls \in [1..2 -> {"up", "down"}], use_cache \in BOOLEAN, env \in GitEnvs,
          dest0 \in {Absent, Full(0)} :
          LET s0 == [dest |-> dest0, cache |-> gitCache, log |-> <<>>]
              r  == try_alternate_repo(<<s0>>, urls, use_cache, env)
          IN  \E k \in Idx(r.tr) :
                /\ prog' = "git_manager"
                /\ call' = [op |-> "try_alternate_repo", urls |-> urls,
                            use_cache |-> use_cache, env |-> env,
                            hit |-> use_cache /\ git_cache_hit(s0.cache),
                            cache0 |-> s0.cache, dest0 |-> dest0]
                /\ ret' = IF k = Len(r.tr) THEN r.ret ELSE "killed"
                /\ log' = r.tr[k].log
                /\ dest' = r.tr[k].dest
                /\ gitCache' = r.tr[k].cache
                /\ UNCHANGED <<repoCache, fileCache, host, repo, work, slots>>

----------------------------------------------------------------------------
(* install_modsecurity.py: download_file_with_fallback                      *)

Archive(m) == [kind |-> "archive", src |-> m]

\* a file that is not a valid archive (an error page, a truncated download)
Garbage(m) == [kind |-> "garbage", src |-> m]

\* a file of at most 1024 bytes
Small(m) == [kind |-> "small", src |-> m]

\* what a URL of a file does when fetched: "up" serves the archive, "down"
\* makes the tool exit non-zero, "small" serves at most 1024 bytes with exit
\* 0, "corrupt" serves more than 1024 bytes that are not the archive
FileMirrorKinds == {"up", "down", "small", "corrupt"}

UrlLists == UNION {[1..n -> FileMirrorKinds] : n \in 0..MaxUrls}

RECURSIVE download_file_with_fallback(_, _, _, _)
\* the for loop from urls[i] on; tool: shutil.which finds "wget", else "curl",
\* else "none"
download_file_with_fallback(tr, urls, i, tool) ==
    IF i > Len(urls) THEN [tr |-> tr, ret |-> "false"]
    ELSE IF tool = "none" THEN [tr |-> tr, ret |-> "false"]
    ELSE LET c == Logged(Last(tr), tool, i)
             w == [c EXCEPT !.dest = Partial(i)]
         IN  CASE urls[i] = "up" ->
                    [tr |-> Upd(tr, c) \o <<w, [c EXCEPT !.dest = Archive(i)]>>, ret |-> "true"]
               [] urls[i] = "corrupt" ->
                    [tr |-> Upd(tr, c) \o <<w, [c EXCEPT !.dest = Garbage(i)]>>, ret |-> "true"]
               [] urls[i] = "small" ->
                    download_file_with_fallback(
                        Upd(tr, c) \o <<[c EXCEPT !.dest = Small(i)], [c EXCEPT !.dest = Absent]>>,
                        urls, i + 1, tool)
               [] OTHER ->
                    \* wget -O leaves a zero-byte destination behind, curl -o writes nothing
                    download_file_with_fallback(
                        IF tool = "wget" THEN Upd(tr, c) \o <<[c EXCEPT !.dest = EmptyEntry]>>
                                         ELSE Upd(tr, c),
                        urls, i + 1, tool)

DownloadFileWithFallback ==
    /\ Idle
    /\ prog \in {"none", "repos"}
    /\ \E urls \in UrlLists, tool \in {"wget", "curl", "none"} :
          LET s0 == [dest |-> Absent, cache |-> Absent, log |-> <<>>]
              r  == download_file_with_fallback(<<s0>>, urls, 1, tool)
          IN  \E k \in Idx(r.tr) :
                /\ prog' = "repos"
                /\ call' = [op |-> "download_file_with_fallback", urls |-> urls,
                            tool |-> tool]
                /\ ret' = IF k = Len(r.tr) THEN r.ret ELSE "killed"
                /\ log' = r.tr[k].log
                /\ dest' = r.tr[k].dest
                /\ UNCHANGED <<repoCache, gitCache, fileCache, host, repo, work, slots>>

----------------------------------------------------------------------------
(* modules/downloader.py: download_file; modules/cache_manager.py           *)

\* retries=3
Retries == 3

\* one run of curl: it exits 0 with the archive, with some other non-empty
\* file or with an empty file, it exits non-zero, or subprocess.run times out
AttemptKinds == {"archive", "garbage", "empty", "fail", "timeout"}

Delivered == {"archive", "garbage"}

\* the outcomes of the curl runs that a call makes: the loop ends at the
\* first run that delivers a non-empty file, and after Retries runs
DownloadRuns ==
    {o \in UNION {[1..n -> AttemptKinds] : n \in 1..Retries} :
        /\ \A i \in 1..(Len(o) - 1) : o[i] \notin Delivered
        /\ Len(o) < Retries => o[Len(o)] \in Delivered}

\* the cache check of download_file: the file exists and its size is > 0
file_cache_hit(c) == path_exists(c) /\ c.kind # "empty"

\* cache_file_exists(cache_dir, file_url, version)
cache_file_exists(c) == path_exists(c)

\* a cache write that moves the target file into the cache: when it fails
\* the target file is gone
save_to_cache_moving(tr, putFail) ==
    LET s == Last(tr)
        e == [s EXCEPT !.cache = EmptyEntry, !.dest = Absent]
        p == [s EXCEPT !.cache = Partial(s.dest.src), !.dest = Absent]
        f == [s EXCEPT !.cache = s.dest]
    IN  CASE putFail = "none"  -> tr \o <<e, p, f>>
          [] putFail = "early" -> tr
          [] putFail = "empty" -> tr \o <<e>>
          [] OTHER             -> tr \o <<e, p>>

\* lines 112-124: shutil.copy2(target_file, cache_file) truncates the cache
\* file, then writes it; every exception is caught and logged
save_to_cache(tr, putFail) ==
    LET s == Last(tr)
        e == [s EXCEPT !.cache = EmptyEntry]
        p == [s EXCEPT !.cache = Partial(s.dest.src)]
        f == [s EXCEPT !.cache = s.dest]
    IN  CASE putFail = "none"  -> tr \o <<e, p, f>>
          [] putFail = "early" -> tr
          [] putFail = "empty" -> tr \o <<e>>
          [] OTHER             -> tr \o <<e, p>>

RECURSIVE download_attempts(_, _, _, _, _)
\* the while loop of download_file, at the start of run number attempt
download_attempts(tr, outs, attempt, use_cache, putFail) ==
    IF attempt > Retries THEN [tr |-> tr, ret |-> "false"]
    ELSE LET c == Logged(Last(tr), "curl", 1)
             o == outs[attempt]
         IN  CASE o \in Delivered ->
                    LET t1 == Upd(tr, c) \o <<[c EXCEPT !.dest = Partial(1)],
                                              [c EXCEPT !.dest = [kind |-> o, src |-> 1]]>>
                    IN  [tr  |-> IF use_cache THEN save_to_cache(t1, putFail) ELSE t1,
                         ret |-> "true"]
               [] o = "empty" ->
                    download_attempts(Upd(tr, c) \o <<[c EXCEPT !.dest = EmptyEntry]>>,
                                      outs, attempt + 1, use_cache, putFail)
               [] OTHER ->
                    LET t1 == IF o = "timeout"
                              THEN Upd(tr, c) \o <<[c EXCEPT !.dest = Partial(1)]>>
                              ELSE Upd(tr, c)
                    IN  IF attempt < Retries
                        THEN download_attempts(t1, outs, attempt + 1, use_cache, putFail)
                        ELSE [tr |-> t1, ret |-> "false"]

download_file(s0, use_cache, outs, copyFail, putFail) ==
    LET p == [s0 EXCEPT !.dest = Partial(s0.cache.src)] IN
    IF use_cache /\ file_cache_hit(s0.cache)
    THEN CASE copyFail = "none"  -> [tr |-> <<s0, p, [s0 EXCEPT !.dest = s0.cache]>>,
                                     ret |-> "true"]
           [] copyFail = "early" -> download_attempts(<<s0>>, outs, 1, use_cache, putFail)
           [] OTHER              -> download_attempts(<<s0, p>>, outs, 1, use_cache, putFail)
    ELSE download_attempts(<<s0>>, outs, 1, use_cache, putFail)

DownloadFile ==
    /\ Idle
    /\ prog \in {"none", "downloader"}
    /\ \E use_cache \in BOOLEAN, outs \in DownloadRuns,
          copyFail \in {"none", "early", "midway"},
          putFail \in {"none", "early", "empty", "partial"} :
          LET s0 == [dest |-> Absent, cache |-> fileCache, log |-> <<>>]
              r  == download_file(s0, use_cache, outs, copyFail, putFail)
          IN  \E k \in Idx(r.tr) :
                /\ prog' = "downloader"
                /\ call' = [op |-> "download_file", use_cache |-> use_cache,
                            outs |-> outs, copyFail |-> copyFail, putFail |-> putFail,
                            hit |-> use_cache /\ file_cache_hit(s0.cache),
                            cache0 |-> s0.cache]
                /\ ret' = IF k = Len(r.tr) THEN r.ret ELSE "killed"
                /\ log' = r.tr[k].log
                /\ dest' = r.tr[k].dest
                /\ fileCache' = r.tr[k].cache
                /\ UNCHANGED <<repoCache, gitCache, host, repo, work, slots>>

CacheFileExists ==
    /\ Idle
    /\ prog \in {"none", "downloader"}
    /\ prog' = "downloader"
    /\ call' = [op |-> "cache_file_exists", cache0 |-> fileCache,
                hit |-> cache_file_exists(fileCache)]
    /\ ret' = IF cache_file_exists(fileCache) THEN "true" ELSE "false"
    /\ UNCHANGED <<log, dest, repoCache, gitCache, fileCache, host, repo, work, slots>>

----------------------------------------------------------------------------
(* modules/cache_manager.py, modules/downloader.py: the files of the cache *)
(* by their paths.  A URL is what the code reads of it: the type keys that *)
(* occur in its host name and in the parts of its path, its last path      *)
(* part, and the version numbers that occur in it.                         *)

MODSEC_VERSION == "3.0.14"

NGINX_VERSION == "1.24.0"

OWASP_CRS_VERSION == "4.13.0"

\* https://gitee.com/supine-win/ModSecurity/repository/archive/master.zip,
\* https://gitee.com/supine-win/ModSecurity-nginx/repository/archive/master.zip,
\* https://nginx.org/download/nginx-1.24.0.tar.gz
Urls ==
    { [id |-> 1, site |-> {}, path |-> {"modsecurity"}, file |-> "master.zip",
       mentions |-> {}],
      [id |-> 2, site |-> {}, path |-> {"modsecurity", "nginx"}, file |-> "master.zip",
       mentions |-> {}],
      [id |-> 3, site |-> {"nginx"}, path |-> {"nginx"}, file |-> "nginx-1.24.0.tar.gz",
       mentions |-> {NGINX_VERSION}] }

\* the version argument of download_file; "none" is None
Versions == {"none", NGINX_VERSION}

\* the keys in the order get_file_cache_path tries them
TypeKeys == <<"modsecurity", "nginx", "connector", "crs", "coreruleset">>

\* download_file lines 55-67: the version when the caller gave none
infer_version(url, version) ==
    LET words == url.site \cup url.path IN
    IF version # "none" THEN version
    ELSE IF "modsecurity" \in words /\ MODSEC_VERSION \in url.mentions THEN MODSEC_VERSION
    ELSE IF "nginx" \in words /\ NGINX_VERSION \in url.mentions THEN NGINX_VERSION
    ELSE IF "coreruleset" \in words \/ "crs" \in words THEN OWASP_CRS_VERSION
    ELSE "latest"

\* <cache_dir>/files/<type>/<version>/<file name>, as <<type, version, name>>:
\* the type is the first key that occurs in a part of the URL's path
get_file_cache_path(url, version) ==
    LET hits == {i \in Idx(TypeKeys) : TypeKeys[i] \in url.path}
        file_type == IF hits = {} THEN "unknown"
                     ELSE TypeKeys[CHOOSE i \in hits : \A j \in hits : i <= j]
    IN  <<file_type, IF version = "none" THEN "latest" ELSE version, url.file>>

\* an artifact identity: the id of a URL, and a version
Identities == {u.id : u \in Urls} \X Versions

CachePaths == {get_file_cache_path(i[1], infer_version(i[1], i[2])) : i \in Urls \X Versions}

\* file: the content at each cache path, src being the id of the URL it was
\* downloaded from; put: for each (URL, version), the complete file that
\* download_file last saved to the cache for it
NoSlots == [file |-> [p \in CachePaths |-> Absent], put |-> [i \in Identities |-> Absent]]

\* in a run of download_file: content that was in the cache file before
FromSlot == 2

\* the curl runs of a call on the cache directory: the first run delivers
\* the archive, or every run fails
SlotRuns == {o \in DownloadRuns : \A i \in Idx(o) : o[i] = o[1] /\ o[i] \in {"archive", "fail"}}

\* download_file(url, target_file, version=version) on the cache directory,
\* run to its return: the cache file is the one at
\* get_file_cache_path(cache_dir, url, version)
DownloadFileAt ==
    /\ Idle
    /\ prog \in {"none", "file_cache"}
    /\ \E url \in Urls, version \in Versions, outs \in SlotRuns, copyFail \in {"none", "early"} :
          LET path == get_file_cache_path(url, infer_version(url, version))
              old  == slots.file[path]
              s0   == [dest |-> Absent, cache |-> [old EXCEPT !.src = FromSlot], log |-> <<>>]
              new(c) == [c EXCEPT !.src = IF c.src = FromSlot THEN old.src
                                          ELSE IF c.src = 1 THEN url.id ELSE 0]
          IN  \E r \in {download_file(s0, TRUE, outs, copyFail, "none")} :
                LET c == new(Last(r.tr).cache) IN
                /\ prog' = "file_cache"
                /\ call' = [op |-> "download_file_at", url |-> url.id, version |-> version,
                            path |-> path, cache0 |-> old,
                            put0 |-> slots.put[<<url.id, version>>]]
                /\ ret' = r.ret
                /\ log' = Last(r.tr).log
                /\ dest' = new(Last(r.tr).dest)
                /\ slots' = [file |-> [slots.file EXCEPT ![path] = c],
                             put  |-> IF Last(r.tr).cache.src = 1 /\ c.kind \in Delivered
                                      THEN [slots.put EXCEPT ![<<url.id, version>>] = c]
                                      ELSE slots.put]
                /\ UNCHANGED <<repoCache, gitCache, fileCache, host, repo, work>>

----------------------------------------------------------------------------
(* modules/nginx_integrator.py: download_connector                          *)

\* download_urls = [MODSEC_CONNECTOR_GITEE_URL, MODSEC_CONNECTOR_GITHUB_URL]
NumConnectorUrls == 2

\* what tar -xvzf leaves in build_dir: the expected directory with files
\* ("ok"), the expected directory empty ("emptydir"), another directory whose
\* name holds modsecurity and nginx ("alt"), none of them ("missing"); or tar
\* exits non-zero ("fail")
ExtractKinds == {"ok", "emptydir", "alt", "missing", "fail"}

\* s0.dest is the file at connector_path.  The module imports MODSEC_VERSION,
\* MODSEC_CONNECTOR_VERSION and MODSEC_CONNECTOR_URL only, so building the
\* download_urls list raises NameError, outside every try block.
download_connector(s0, dirExists, extract) ==
    IF ~path_exists(s0.dest) THEN [tr |-> <<s0>>, ret |-> "raised"]
    ELSE IF dirExists THEN [tr |-> <<s0>>, ret |-> "true"]
    ELSE IF s0.dest.kind = "empty" THEN [tr |-> <<s0>>, ret |-> "false"]
    ELSE IF s0.dest.kind # "archive"
    THEN \* tar -tf exits non-zero: os.remove(connector_path)
         [tr |-> <<s0, [s0 EXCEPT !.dest = Absent]>>, ret |-> "false"]
    ELSE [tr |-> <<s0>>, ret |-> IF extract \in {"ok", "alt"} THEN "true" ELSE "false"]

DownloadConnector ==
    /\ Idle
    /\ prog \in {"none", "nginx_integrator"}
    /\ \E dest0 \in {Absent, EmptyEntry, Archive(0), Garbage(0), Partial(0)},
          dirExists \in BOOLEAN, extract \in ExtractKinds :
          LET s0 == [dest |-> dest0, cache |-> Absent, log |-> <<>>]
              r  == download_connector(s0, dirExists, extract)
          IN  \E k \in Idx(r.tr) :
                /\ prog' = "nginx_integrator"
                /\ call' = [op |-> "download_connector", dest0 |-> dest0,
                            dirExists |-> dirExists, extract |-> extract]
                /\ ret' = IF k = Len(r.tr) THEN r.ret ELSE "killed"
                /\ log' = r.tr[k].log
                /\ dest' = r.tr[k].dest
                /\ UNCHANGED <<repoCache, gitCache, fileCache, host, repo, work, slots>>

----------------------------------------------------------------------------
(* modules/modsecurity_builder.py: build_modsecurity                        *)

\* largest max_retries handed to build_modsecurity
MaxRetries == 2

\* if major_version >= 7
MinGccMajor == 7

\* what gcc --version shows: no version that can be read (0: gcc is missing,
\* exits non-zero or prints no x.y.z), or the major number of its version
GccMajors == {0, 4, 7}

\* modules/system_detector.py check_gcc_version(): True iff a version is read
\* and its major number is at least 7
check_gcc_version(gcc) == gcc # 0 /\ gcc >= MinGccMajor

\* what the source tree offers to generate the build system: autogen.sh or
\* build.sh ("script"), configure.ac only ("configure_ac"), a configure script
\* only ("configure"), none of them ("nothing")
BuildSystems == {"script", "configure_ac", "configure", "nothing"}

\* how one pass of the loop ends: the script exits non-zero, the tree cannot
\* be made buildable (return False at once), ./configure or make exits
\* non-zero, make exits 0 without libmodsecurity.so, or the library is there
BuildOutcomes == {"gen_fail", "no_script", "configure_fail", "make_fail", "no_artifact", "ok"}

Final == {"no_script", "ok"}

\* the passes a call with max_retries makes: the loop ends at the first pass
\* that returns, and after max_retries + 1 passes
BuildRuns(max_retries, system) ==
    {o \in UNION {[1..n -> BuildOutcomes] : n \in 1..(max_retries + 1)} :
        /\ \A i \in 1..(Len(o) - 1) : o[i] \notin Final
        /\ Len(o) < max_retries + 1 => o[Len(o)] \in Final
        /\ \A i \in 1..Len(o) : /\ o[i] = "gen_fail" => system = "script"
                                /\ o[i] = "no_script" => system = "nothing"}

\* the commands of one pass, in order, up to the one that ends it
pass_steps(system, o, attempt) ==
    LET gen == IF system = "configure" THEN <<>> ELSE <<Cmd("generate", attempt)>> IN
    CASE o \in {"gen_fail", "no_script"} -> gen
      [] o = "configure_fail"            -> gen \o <<Cmd("configure", attempt)>>
      [] OTHER                           -> gen \o <<Cmd("configure", attempt), Cmd("make", attempt)>>

RECURSIVE build_attempts_from(_, _, _, _, _)
\* for attempt in range(max_retries + 1), from the pass numbered attempt + 1 on
build_attempts_from(l, system, outs, attempt, max_retries) ==
    IF attempt > max_retries THEN [log |-> l, ret |-> "false", lib |-> FALSE]
    ELSE LET o  == outs[attempt + 1]
             l1 == l \o pass_steps(system, o, attempt + 1)
         IN  CASE o = "ok"        -> [log |-> l1, ret |-> "true", lib |-> TRUE]
               [] o = "no_script" -> [log |-> l1, ret |-> "false", lib |-> FALSE]
               [] OTHER ->
                    IF attempt < max_retries
                    THEN build_attempts_from(Append(l1, Cmd("clean", attempt + 1)),
                                             system, outs, attempt + 1, max_retries)
                    ELSE [log |-> l1, ret |-> "false", lib |-> FALSE]

\* the loop making one pass more than max_retries + 1
build_attempts_one_more(system, outs, max_retries) ==
    build_attempts_from(<<>>, system, outs \o <<"make_fail">>, 0, max_retries + 1)

\* lines 139-283
build_attempts(system, outs, max_retries) ==
    build_attempts_from(<<>>, system, outs, 0, max_retries)

\* Header names as a compiler prints them after "fatal error: ", split into
\* runs of word characters and the characters between them
Headers ==
    { <<"pcre", ".", "h">>,
      <<"libxml", "/", "parser", ".", "h">>,
      <<"bits", "/", "libc", "-", "header", "-", "start", ".", "h">> }

\* the error output of a configuration step that exits non-zero: <<>> when it
\* has no "fatal error:" line, else the header that line names
ErrorOutputs == Headers \cup {<<>>}

\* the error output of the configuration step of a call; there is none when the
\* step does not fail
ErrorOutputOf(failed) == IF failed THEN ErrorOutputs ELSE {<<>>}

\* re.findall(r'fatal error: ([\w\/\.]+\.h)', stderr): the longest run of word
\* characters, "/" and "." after "fatal error: " that ends in ".h"
missing_headers(stderr) ==
    LET ends == {n \in 3..Len(stderr) :
                    /\ \A j \in 1..n : stderr[j] # "-"
                    /\ stderr[n - 1] = "." /\ stderr[n] = "h"}
    IN  IF ends = {} THEN {}
        ELSE {SubSeq(stderr, 1, CHOOSE n \in ends : \A m \in ends : m <= n)}

\* lines 269-272: logger.error(f"...: {e}") with e the CalledProcessError, whose
\* text is the command and its exit status; the error output goes to
\* logger.debug only.  The headers that the reported error names.
build_error_headers(stderr) == {}

\* dirExists: build_dir exists; built: src/.libs/libmodsecurity.so exists.
\* lib: the library exists when the call ends (outcome "ok" of a pass: make
\* has exited 0 and the library is there).
build_modsecurity(dirExists, built, system, outs, max_retries) ==
    IF ~dirExists THEN [log |-> <<>>, ret |-> "false", lib |-> FALSE]
    ELSE IF built THEN [log |-> <<>>, ret |-> "true", lib |-> TRUE]
    ELSE build_attempts(system, outs, max_retries)

BuildModsecurity ==
    /\ Idle
    /\ prog \in {"none", "modsecurity_builder"}
    /\ \E max_retries \in 0..MaxRetries, dirExists \in BOOLEAN, built \in BOOLEAN,
          system \in BuildSystems, gcc \in GccMajors :
          \E outs \in BuildRuns(max_retries, system) :
             LET r == build_modsecurity(dirExists, built, system, outs, max_retries)
             IN  \E k \in 0..Len(r.log),
                    stderr \in ErrorOutputOf(\E j \in Idx(r.log) : /\ r.log[j].cmd = "configure"
                                                   /\ r.log[j].m \in Idx(outs)
                                                   /\ outs[r.log[j].m] = "configure_fail") :
                   /\ prog' = "modsecurity_builder"
                   \* lines 124-129: the result of check_gcc_version() is logged only
                   /\ call' = [op |-> "build_modsecurity", max_retries |-> max_retries,
                               system |-> system, outs |-> outs,
                               gcc_ok |-> check_gcc_version(gcc),
                               stderr |-> stderr, named |-> build_error_headers(stderr)]
                   /\ ret' = IF k = Len(r.log) THEN r.ret ELSE "killed"
                   /\ log' = SubSeq(r.log, 1, k)
                   /\ dest' = IF k = Len(r.log) /\ r.lib THEN Full(0) ELSE Absent
                   /\ UNCHANGED <<repoCache, gitCache, fileCache, host, repo, work, slots>>

----------------------------------------------------------------------------
(* The nginx module: build, compatibility test, installation               *)
(*                                                                         *)
(* host.module: the file ngx_http_modsecurity_module.so at the canonical   *)
(* modules path, "absent", "old" (left by an earlier run) or "new" (copied *)
(* by this run); host.incompatible: a file <canonical>.incompatible        *)
(* exists; host.load_module: the load_module directive in the nginx        *)
(* configuration, "absent", "old" or "new"; host.verify: the result of     *)
(* this run's compatibility test; host.built: make modules has produced    *)
(* the module file in this run; host.stage: where main of the legacy installer stands;        *)
(* host.testconf: the test configuration file (/tmp/modsec_test.conf or    *)
(* /tmp/bt_modsec_test.conf) exists.                                       *)

\* what nginx -V yields: a "configure arguments:" line ("parsed") or none
ArgKinds == {"parsed", "none"}

\* outcome of nginx -t with the module loaded: exit 0, non-zero with "not
\* binary compatible" in stderr, non-zero with another message
TestKinds == {"ok", "incompatible", "failed"}

Step(s, c, m) == [s EXCEPT !.log = Append(@, Cmd(c, m))]

\* how the built module relates to the nginx binary: it loads, nginx rejects
\* it as not binary compatible, or it cannot be loaded for another reason
AbiKinds == {"compatible", "incompatible", "unloadable"}

\* nginx -t.  conf: the configuration it reads, "synthetic" (the test file:
\* a load_module line, empty events and http blocks) or "live" (the server's
\* own configuration, read when no -c option is given); loads: the live
\* configuration has a load_module line for the module path; liveOk: the
\* live configuration is otherwise valid.
nginx_t(conf, abi, loads, liveOk) ==
    IF conf = "synthetic" \/ loads
    THEN CASE abi = "incompatible" -> "incompatible"
           [] abi = "unloadable"   -> "failed"
           [] OTHER                -> IF conf = "synthetic" \/ liveOk THEN "ok" ELSE "failed"
    ELSE IF liveOk THEN "ok" ELSE "failed"

\* exit 0; "not binary compatible" in stderr; any other CalledProcessError
classify(outcome) ==
    CASE outcome = "ok"           -> "compatible"
      [] outcome = "incompatible" -> "binaryIncompatible"
      [] OTHER                    -> "failed"

\* the configuration nginx reads when run as
\* NGINX_CONF_FILE=/tmp/modsec_test.conf nginx -t: nginx takes its
\* configuration path from -c or from its compiled-in default only
env_conf == "live"

\* a finally clause that leaves the test configuration file in place
keep_test_conf(s) == s

\* the finally clause: os.remove of the test configuration file
remove_test_conf(s) == [s EXCEPT !.testconf = FALSE]

LegacyInputs ==
    [force : BOOLEAN, removeFail : BOOLEAN, cloneOk : BOOLEAN, version : BOOLEAN,
     args : ArgKinds, sourceOk : BOOLEAN, configureOk : BOOLEAN, makeOk : BOOLEAN,
     abi : AbiKinds, liveOk : BOOLEAN, writeFail : BOOLEAN, testRaises : BOOLEAN,
     renameFail : BOOLEAN]

\* legacy install_modsecurity_nginx, lines 1173-1241: copy the module to the
\* modules directory, write the test file, run nginx -t, rename the module
\* when nginx -t exits non-zero, remove the test file.  writeFail: writing
\* the test file raises, before the try block is entered; testRaises: running
\* the test raises something else than CalledProcessError, or decoding its
\* stderr raises.  The outer handler then calls sys.exit(1).
legacy_install_and_test(tr, i) ==
    LET s  == Last(tr)
        c  == [Step(s, "copy", 0) EXCEPT !.module = "new"]
        w  == [c EXCEPT !.testconf = TRUE]
        t  == Step(w, "test", env_conf)
        o  == nginx_t(env_conf, i.abi, c.load_module # "absent", i.liveOk)
        v  == [t EXCEPT !.verify = classify(o)]
        r  == Step(v, "rename", 0)
        q  == IF i.renameFail THEN r
              ELSE [r EXCEPT !.module = "absent", !.incompatible = TRUE]
    IN  IF i.writeFail THEN [tr |-> tr \o <<c, w>>, ret |-> "exit"]
        ELSE IF i.testRaises THEN [tr |-> tr \o <<c, w, t, remove_test_conf(t)>>, ret |-> "exit"]
        ELSE IF o = "ok" THEN [tr |-> tr \o <<c, w, v, remove_test_conf(v)>>, ret |-> "returned"]
        ELSE [tr |-> tr \o <<c, w, q, remove_test_conf(q)>>, ret |-> "returned"]

\* legacy install_modsecurity_nginx(force_update); ret "exit": sys.exit(1)
legacy_install_modsecurity_nginx(s0, i) ==
    IF s0.module # "absent" /\ ~i.force THEN [tr |-> <<s0>>, ret |-> "returned"]
    ELSE LET s1   == IF s0.module # "absent" /\ ~i.removeFail
                     THEN [s0 EXCEPT !.module = "absent"] ELSE s0
             s2   == Step(s1, "clone", 0)
             s3   == Step(s2, "wget", 0)
             used == IF i.args = "none" THEN "default" ELSE "parsed"
             \* os.chdir into nginx-<nginx_version>, extracted from the tarball just fetched
             s4   == Step(Step(s3, "chdir", "host"), "configure", used)
             s5   == Step(s4, "make", used)
         IN  IF ~i.cloneOk THEN [tr |-> <<s0, s1, s2>>, ret |-> "exit"]
             ELSE IF ~i.version THEN [tr |-> <<s0, s1, s2>>, ret |-> "exit"]
             ELSE IF ~i.sourceOk THEN [tr |-> <<s0, s1, s2, s3>>, ret |-> "exit"]
             ELSE IF ~i.configureOk THEN [tr |-> <<s0, s1, s2, s3, s4>>, ret |-> "exit"]
             ELSE IF ~i.makeOk THEN [tr |-> <<s0, s1, s2, s3, s4, s5>>, ret |-> "exit"]
             ELSE legacy_install_and_test(<<s0, s1, s2, s3, s4, [s5 EXCEPT !.built = TRUE]>>, i)

\* the fields of host a call works on, with the call's log
HostState == [module |-> host.module, incompatible |-> host.incompatible,
              load_module |-> host.load_module, verify |-> host.verify,
              built |-> host.built, testconf |-> host.testconf, log |-> <<>>]

Installed(s, stage) ==
    [module |-> s.module, incompatible |-> s.incompatible, load_module |-> s.load_module,
     verify |-> s.verify, built |-> s.built, testconf |-> s.testconf, stage |-> stage]

\* main of the legacy installer up to its call of install_modsecurity_nginx:
\* a new run of the script on the same host
LegacyMain ==
    /\ Idle
    /\ prog = "legacy"
    /\ host.stage \in {"configured", "exited"}
    /\ host' = [host EXCEPT !.stage = "start", !.verify = "none", !.built = FALSE,
                            !.module = IF @ = "new" THEN "old" ELSE @,
                            !.load_module = IF @ = "new" THEN "old" ELSE @]
    /\ UNCHANGED <<prog, call, ret, log, dest, repoCache, gitCache, fileCache, repo, work, slots>>

LegacyInstallModsecurityNginx ==
    /\ Idle
    /\ prog \in {"none", "legacy"}
    /\ host.stage = "start"
    /\ \E i \in LegacyInputs :
          LET r == legacy_install_modsecurity_nginx(HostState, i)
          IN  \E k \in Idx(r.tr),
                 stderr \in ErrorOutputOf(i.cloneOk /\ i.version /\ i.sourceOk
                                             /\ ~i.configureOk) :
                /\ prog' = "legacy"
                \* lines 1126-1141: the error message lists the headers found
                /\ call' = [op |-> "legacy_install_modsecurity_nginx", force |-> i.force,
                            args |-> i.args, abi |-> i.abi, liveOk |-> i.liveOk,
                            loads |-> host.load_module # "absent",
                            module0 |-> host.module,
                            stderr |-> stderr, named |-> missing_headers(stderr)]
                /\ ret' = IF k = Len(r.tr) THEN r.ret ELSE "killed"
                /\ log' = r.tr[k].log
                /\ host' = Installed(r.tr[k], IF k = Len(r.tr) /\ r.ret = "returned"
                                              THEN "installed" ELSE "exited")
                /\ UNCHANGED <<dest, repoCache, gitCache, fileCache, repo, work, slots>>

\* legacy configure_modsecurity, lines 1423-1445: with IS_BT_ENV and a module
\* file in place, load it with nginx -t -c /tmp/bt_modsec_test.conf, log the
\* outcome, remove the test file.  The states the test goes through.
legacy_bt_test(s, bt, abi) ==
    IF ~bt \/ s.module = "absent" THEN <<>>
    ELSE LET w == [s EXCEPT !.testconf = TRUE]
             v == [Step(w, "test", "synthetic") EXCEPT
                      !.verify = classify(nginx_t("synthetic", abi, FALSE, TRUE))]
         IN  <<w, v, remove_test_conf(v)>>

\* a configure_modsecurity that restarts nginx whatever the test of the live
\* configuration says
legacy_configure_restart_anyway(s0, prepared, bt, abi, confOk) ==
    LET b  == <<s0>> \o legacy_bt_test(s0, bt, abi)
        s1 == [Step(Last(b), "write_load_module", 0) EXCEPT !.load_module = "new"]
        s2 == Step(s1, "nginx_test", 0)
    IN  IF ~prepared THEN [tr |-> <<s0>>, ret |-> "exit"]
        ELSE [tr |-> b \o <<s1, s2, Step(s2, "restart", 0)>>,
              ret |-> IF confOk THEN "returned" ELSE "exit"]

\* legacy configure_modsecurity: the compatibility test of the BT panel, then
\* lines 1480-1669: write the load_module directive, test the live
\* configuration, restart nginx.  prepared: the configuration files before
\* them were written without an exception.
legacy_configure_modsecurity(s0, prepared, bt, abi, confOk) ==
    LET b  == <<s0>> \o legacy_bt_test(s0, bt, abi)
        s1 == [Step(Last(b), "write_load_module", 0) EXCEPT !.load_module = "new"]
        s2 == Step(s1, "nginx_test", 0)
    IN  IF ~prepared THEN [tr |-> <<s0>>, ret |-> "exit"]
        ELSE IF ~confOk THEN [tr |-> b \o <<s1, s2>>, ret |-> "exit"]
        ELSE [tr |-> b \o <<s1, s2, Step(s2, "restart", 0)>>, ret |-> "returned"]

LegacyConfigureModsecurity ==
    /\ Idle
    /\ prog = "legacy"
    /\ host.stage = "installed"
    /\ \E prepared \in BOOLEAN, bt \in BOOLEAN, abi \in AbiKinds, confOk \in BOOLEAN :
          LET r == legacy_configure_modsecurity(HostState, prepared, bt, abi, confOk)
          IN  \E k \in Idx(r.tr) :
                /\ call' = [op |-> "legacy_configure_modsecurity", bt |-> bt, abi |-> abi,
                            confOk |-> confOk]
                /\ ret' = IF k = Len(r.tr) THEN r.ret ELSE "killed"
                /\ log' = r.tr[k].log
                /\ host' = Installed(r.tr[k], IF k = Len(r.tr) /\ r.ret = "returned"
                                              THEN "configured" ELSE "exited")
                /\ UNCHANGED <<prog, dest, repoCache, gitCache, fileCache, repo, work, slots>>

NewInputs ==
    [force : BOOLEAN, version : BOOLEAN, args : ArgKinds, sourceOk : BOOLEAN,
     connector : BOOLEAN, configureOk : BOOLEAN, makeOk : BOOLEAN, objs : BOOLEAN,
     confOk : BOOLEAN, restartOk : BOOLEAN]

\* install_modsecurity.py compile_dynamic_module(nginx_src_dir, connector_dir,
\* configure_args): get_nginx_info hands it "" when nginx -V shows no
\* "configure arguments:" line.  objs: make modules leaves
\* objs/ngx_http_modsecurity_module.so.
compile_dynamic_module(tr, tree, i) ==
    LET s    == Last(tr)
        used == IF i.args = "none" THEN "empty" ELSE "parsed"
        s1   == Step(Step(s, "chdir", tree), "configure", used)
        s2   == Step(s1, "make", used)
    IN  IF ~i.configureOk THEN [tr |-> Append(tr, s1), ret |-> "false"]
        ELSE IF ~i.makeOk THEN [tr |-> tr \o <<s1, s2>>, ret |-> "false"]
        ELSE IF ~i.objs THEN [tr |-> tr \o <<s1, s2>>, ret |-> "false"]
        ELSE [tr |-> tr \o <<s1, [s2 EXCEPT !.built = TRUE]>>, ret |-> "true"]

\* install_modsecurity.py install_modsecurity_nginx(modsec_dir, force_update, bt_env)
install_modsecurity_nginx(s0, i) ==
    IF ~i.version THEN [tr |-> <<s0>>, ret |-> "false"]
    ELSE IF s0.module # "absent" /\ ~i.force THEN [tr |-> <<s0>>, ret |-> "true"]
    ELSE LET s1 == [s0 EXCEPT !.module = "absent"]
             s2 == Step(s1, "wget", 0)
             \* download_nginx_source(nginx_version): the directory nginx-<nginx_version>
             b  == compile_dynamic_module(<<s0, s1, s2>>, "host", i)
         IN  IF ~i.sourceOk THEN [tr |-> <<s0, s1, s2>>, ret |-> "false"]
             ELSE IF ~i.connector THEN [tr |-> <<s0, s1, s2>>, ret |-> "false"]
             ELSE IF b.ret = "false" THEN b
             ELSE LET c == [Step(Last(b.tr), "copy", 0) EXCEPT !.module = "new"]
                      w == [Step(c, "write_load_module", 0) EXCEPT !.load_module = "new"]
                      n == Step(w, "nginx_test", 0)
                      t == b.tr \o <<c, w, n>>
                  IN  IF ~i.confOk THEN [tr |-> t, ret |-> "false"]
                      ELSE [tr  |-> Append(t, Step(n, "restart", 0)),
                            ret |-> IF i.restartOk THEN "true" ELSE "false"]

InstallModsecurityNginx ==
    /\ Idle
    /\ prog \in {"none", "install"}
    /\ \E i \in NewInputs :
          LET s0 == [HostState EXCEPT !.verify = "none", !.built = FALSE,
                                      !.module = IF @ = "new" THEN "old" ELSE @,
                                      !.load_module = IF @ = "new" THEN "old" ELSE @]
              r  == install_modsecurity_nginx(s0, i)
          IN  \E k \in Idx(r.tr) :
                /\ prog' = "install"
                /\ call' = [op |-> "install_modsecurity_nginx", force |-> i.force,
                            args |-> i.args, version |-> i.version,
                            module0 |-> s0.module, load0 |-> s0.load_module,
                            confOk |-> i.confOk]
                /\ ret' = IF k = Len(r.tr) THEN r.ret ELSE "killed"
                /\ log' = r.tr[k].log
                /\ host' = Installed(r.tr[k], "start")
                /\ UNCHANGED <<dest, repoCache, gitCache, fileCache, repo, work, slots>>

\* what /www/server/nginx/src holds on a host with the BT panel: nothing, the
\* sources of the version the nginx binary reports, the sources of another one
BtSources == {"absent", "host", "other"}

BuildInputs ==
    [installed : BOOLEAN, args : ArgKinds, dynamic : BOOLEAN, bt : BOOLEAN,
     btSrc : BtSources, sourceOk : BOOLEAN,
     configureOk : BOOLEAN, makeOk : BOOLEAN, objs : BOOLEAN]

\* modules/nginx_integrator.py build_nginx_module: get_nginx_compile_options
\* returns {} when nginx -V shows no "configure arguments:" line
build_nginx_module(s0, i) ==
    LET local == i.bt /\ i.btSrc # "absent"           \* /www/server/nginx/src is used as it is
        s1 == IF local THEN s0 ELSE Step(s0, "curl", 0)
        s2 == Step(Step(s1, "chdir", IF local THEN i.btSrc ELSE "host"), "configure", "parsed")
        s3 == Step(s2, "make", "parsed")
        s4 == [s3 EXCEPT !.built = TRUE]
    IN  IF ~i.installed THEN [tr |-> <<s0>>, ret |-> "false"]
        ELSE IF i.args = "none" THEN [tr |-> <<s0>>, ret |-> "false"]
        ELSE IF ~(i.dynamic \/ i.bt) THEN [tr |-> <<s0>>, ret |-> "false"]
        ELSE IF ~local /\ ~i.sourceOk THEN [tr |-> <<s0, s1>>, ret |-> "false"]
        ELSE IF ~i.configureOk THEN [tr |-> <<s0, s1, s2>>, ret |-> "false"]
        ELSE IF ~i.makeOk THEN [tr |-> <<s0, s1, s2, s3>>, ret |-> "false"]
        ELSE IF ~i.objs THEN [tr |-> <<s0, s1, s2, s3>>, ret |-> "false"]
        ELSE [tr  |-> <<s0, s1, s2, s4, [Step(s4, "copy", 0) EXCEPT !.module = "new"]>>,
              ret |-> "true"]

BuildNginxModule ==
    /\ Idle
    /\ prog \in {"none", "nginx_integrator"}
    /\ \E i \in BuildInputs :
          LET s0 == [HostState EXCEPT !.verify = "none", !.built = FALSE,
                                      !.module = IF @ = "new" THEN "old" ELSE @]
              r  == build_nginx_module(s0, i)
          IN  \E k \in Idx(r.tr) :
                /\ prog' = "nginx_integrator"
                /\ call' = [op |-> "build_nginx_module", args |-> i.args,
                            installed |-> i.installed, bt |-> i.bt]
                /\ ret' = IF k = Len(r.tr) THEN r.ret ELSE "killed"
                /\ log' = r.tr[k].log
                /\ host' = Installed(r.tr[k], "start")
                /\ UNCHANGED <<dest, repoCache, gitCache, fileCache, repo, work, slots>>

----------------------------------------------------------------------------
(* modules/git_manager.py and modules/modsecurity_compiler.py:             *)
(* init_git_submodules                                                     *)
(*                                                                         *)
(* repo.git: the directory holds .git; repo.gitmodules: it holds           *)
(* .gitmodules; repo.subs: "initialized" when git submodule status shows   *)
(* no line that starts with '-'; repo.calls: the calls of                  *)
(* init_git_submodules made on it so far.                                  *)

\* calls of init_git_submodules counted on one repository
MaxCalls == 2

\* retry=2
SubmoduleRetry == 2

NoRepo == [git |-> FALSE, gitmodules |-> FALSE, subs |-> "initialized", calls |-> 0]

\* the directories a first call can be handed; a tree without .gitmodules has
\* no submodule to initialize
RepoTrees ==
    {r \in [git : BOOLEAN, gitmodules : BOOLEAN, subs : {"initialized", "uninitialized"},
            calls : {0}] : ~r.gitmodules => r.subs = "initialized"}

\* check_submodules_initialized(repo_dir): statusOk is FALSE when git
\* submodule status exits non-zero or runs longer than 5 seconds
check_submodules_initialized(r, statusOk) ==
    IF ~r.gitmodules THEN [log |-> <<>>, ret |-> TRUE]
    ELSE [log |-> <<Cmd("submodule_status", 0)>>,
          ret |-> statusOk /\ r.subs = "initialized"]

\* one pass of the retry loop: git submodule init exits non-zero, git submodule
\* update exits non-zero or times out, or both succeed
SubmodulePasses == {"init_fail", "update_fail", "ok"}

\* the passes a call makes: the loop ends at the first pass that succeeds and
\* after retry + 1 passes
SubmoduleRuns(retry) ==
    {o \in UNION {[1..n -> SubmodulePasses] : n \in 1..(retry + 1)} :
        /\ \A i \in 1..(Len(o) - 1) : o[i] # "ok"
        /\ Len(o) < retry + 1 => o[Len(o)] = "ok"}

submodule_pass(o, attempt) ==
    IF o = "init_fail" THEN <<Cmd("submodule_init", attempt)>>
    ELSE <<Cmd("submodule_init", attempt), Cmd("submodule_update", attempt)>>

RECURSIVE submodule_attempts(_, _, _, _)
\* for attempt in range(retry + 1), from the pass numbered attempt + 1 on
submodule_attempts(l, outs, attempt, retry) ==
    IF attempt > retry THEN [log |-> l, ret |-> "false"]
    ELSE LET l1 == l \o submodule_pass(outs[attempt + 1], attempt + 1)
         IN  IF outs[attempt + 1] = "ok" THEN [log |-> l1, ret |-> "true"]
             ELSE IF attempt < retry THEN submodule_attempts(l1, outs, attempt + 1, retry)
             ELSE [log |-> l1, ret |-> "false"]

\* init_git_submodules that goes to the retry loop without looking at the tree
init_git_submodules_unchecked(r, statusOk, outs) ==
    IF ~r.git THEN [log |-> <<>>, ret |-> "false"]
    ELSE submodule_attempts(<<>>, outs, 0, SubmoduleRetry)

\* modules/git_manager.py init_git_submodules(repo_dir)
init_git_submodules(r, statusOk, outs) ==
    LET c == check_submodules_initialized(r, statusOk) IN
    IF ~r.git THEN [log |-> <<>>, ret |-> "false"]
    ELSE IF c.ret THEN [log |-> c.log, ret |-> "true"]
    ELSE submodule_attempts(c.log, outs, 0, SubmoduleRetry)

\* modules/modsecurity_compiler.py init_git_submodules(repo_dir): git submodule
\* init and git submodule update, once, whatever the state of the tree
compiler_init_git_submodules(r, o) ==
    IF ~r.git THEN [log |-> <<>>, ret |-> "false"]
    ELSE [log |-> submodule_pass(o, 1), ret |-> IF o = "ok" THEN "true" ELSE "false"]

\* the tree after a call that ran the first k commands of its log l: the
\* submodules are there once a git submodule update has succeeded
AfterSubmodules(r, l, k, r_ret) ==
    [r EXCEPT !.subs  = IF k = Len(l) /\ r_ret = "true" /\ l # <<>>
                           /\ l[Len(l)].cmd = "submodule_update"
                        THEN "initialized" ELSE @,
              !.calls = IF @ < MaxCalls THEN @ + 1 ELSE @]

InitGitSubmodules ==
    /\ Idle
    /\ prog \in {"none", "submodules"}
    /\ \E r0 \in IF prog = "none" THEN RepoTrees ELSE {repo},
          statusOk \in BOOLEAN, outs \in SubmoduleRuns(SubmoduleRetry) :
          LET r == init_git_submodules(r0, statusOk, outs)
          IN  \E k \in 0..Len(r.log) :
                /\ prog' = "submodules"
                /\ call' = [op |-> "init_git_submodules", impl |-> "git_manager",
                            repo0 |-> r0, statusOk |-> statusOk]
                /\ ret' = IF k = Len(r.log) THEN r.ret ELSE "killed"
                /\ log' = SubSeq(r.log, 1, k)
                /\ repo' = AfterSubmodules(r0, r.log, k, r.ret)
                /\ UNCHANGED <<dest, repoCache, gitCache, fileCache, host, work, slots>>

CompilerInitGitSubmodules ==
    /\ Idle
    /\ prog \in {"none", "submodules"}
    /\ \E r0 \in IF prog = "none" THEN RepoTrees ELSE {repo}, o \in SubmodulePasses :
          LET r == compiler_init_git_submodules(r0, o)
          IN  \E k \in 0..Len(r.log) :
                /\ prog' = "submodules"
                /\ call' = [op |-> "init_git_submodules", impl |-> "modsecurity_compiler",
                            repo0 |-> r0, statusOk |-> TRUE]
                /\ ret' = IF k = Len(r.log) THEN r.ret ELSE "killed"
                /\ log' = SubSeq(r.log, 1, k)
                /\ repo' = AfterSubmodules(r0, r.log, k, r.ret)
                /\ UNCHANGED <<dest, repoCache, gitCache, fileCache, host, work, slots>>

----------------------------------------------------------------------------
(* The arguments handed to ./configure for the module build                *)
(*                                                                         *)
(* A configure-argument string is the sequence of its whitespace-separated *)
(* words.  A word is [d, k, v]: d dashes in front of the name k, and the   *)
(* value v after '=' ("none" without '=').  A word without dashes is the   *)
(* text k on its own.                                                      *)

\* longest configure-argument string, in words
MaxArgs == 3

Opt(k, v) == [d |-> 2, k |-> k, v |-> v]

Bare(k) == [d |-> 0, k |-> k, v |-> "none"]

\* --add-dynamic-module=<connector_dir>
ConnectorArg == Opt("add-dynamic-module", "connector_dir")

\* the words a host's "configure arguments:" line is made of
ArgWords ==
    {Opt("prefix", "/usr"), Opt("prefix", "none"), Bare("/usr"),
     Opt("add-module", "/m"), Opt("add-dynamic-module", "/d"),
     Opt("with-compat", "none"), Opt("user", "www")}

ArgLists == UNION {[1..n -> ArgWords] : n \in 0..MaxArgs}

RECURSIVE filter_args(_, _, _)
\* install_modsecurity.py compile_dynamic_module, lines 1568-1584: the loop
\* over configure_args.split() from word i on
filter_args(args, i, skip_next) ==
    IF i > Len(args) THEN <<>>
    ELSE LET a == args[i] IN
         IF skip_next THEN filter_args(args, i + 1, FALSE)
         ELSE IF a.d = 2 /\ ((a.k = "prefix" /\ a.v # "none") \/ a.k = "add-dynamic-module")
         THEN filter_args(args, i + 1, FALSE)
         ELSE IF a.d = 2 /\ a.k = "prefix" /\ a.v = "none"
         THEN filter_args(args, i + 1, TRUE)
         ELSE <<a>> \o filter_args(args, i + 1, FALSE)

\* install_modsecurity.py compile_dynamic_module: the words after ./configure
dynamic_module_configure(args) == filter_args(args, 1, FALSE) \o <<ConnectorArg>>

RECURSIVE split_args(_, _, _)
\* modules/nginx_integrator.py get_nginx_compile_options: config_args.split(' --').
\* Every word with dashes but the first starts a new piece and loses its
\* dashes; the first word keeps them (kept); other words stay in their piece.
split_args(args, i, pieces) ==
    IF i > Len(args) THEN pieces
    ELSE LET a == args[i]
             n == Len(pieces)
         IN  IF a.d = 2 \/ n = 0
             THEN split_args(args, i + 1,
                      Append(pieces, [kept |-> a.d = 2 /\ i = 1, k |-> a.k, v |-> a.v,
                                      extra |-> <<>>]))
             ELSE split_args(args, i + 1,
                      [pieces EXCEPT ![n].extra = Append(@, a)])

\* the key of a piece: all of it without '=', the part before '=' with it
option_key(p) == [kept |-> p.kept, k |-> p.k,
                  extra |-> IF p.v = "none" THEN p.extra ELSE <<>>]

\* True without '=', else the part after '='
option_value(p) == IF p.v = "none" THEN [flag |-> TRUE, v |-> "none", extra |-> <<>>]
                   ELSE [flag |-> FALSE, v |-> p.v, extra |-> p.extra]

RECURSIVE options_dict(_, _, _)
\* options[key] = value for every piece: a dict keeps the place of the first
\* assignment to a key and the value of the last
options_dict(pieces, i, d) ==
    IF i > Len(pieces) THEN d
    ELSE LET key == option_key(pieces[i])
             val == option_value(pieces[i])
             at  == {j \in 1..Len(d) : d[j].key = key}
         IN  options_dict(pieces, i + 1,
                 IF at = {} THEN Append(d, [key |-> key, val |-> val])
                 ELSE [j \in 1..Len(d) |-> IF j \in at THEN [key |-> key, val |-> val]
                                           ELSE d[j]])

get_nginx_compile_options(args) == options_dict(split_args(args, 1, <<>>), 1, <<>>)

\* 'name' in options / key in ['add-dynamic-module', 'add-module']
is_key(e, name) == e.key = [kept |-> FALSE, k |-> name, extra |-> <<>>]

\* modules/nginx_integrator.py build_nginx_module, lines 301-311: what one
\* option adds to configure_cmd
option_words(e) ==
    IF is_key(e, "add-dynamic-module") \/ is_key(e, "add-module") THEN <<>>
    ELSE IF e.val.flag
    THEN <<[d |-> IF e.key.kept THEN 4 ELSE 2, k |-> e.key.k, v |-> "none"]>> \o e.key.extra
    ELSE <<Opt(e.key.k, e.val.v)>> \o e.val.extra

RECURSIVE options_words(_, _)
options_words(d, i) ==
    IF i > Len(d) THEN <<>> ELSE option_words(d[i]) \o options_words(d, i + 1)

\* modules/nginx_integrator.py build_nginx_module: the words after
\* ./configure; ret "false" when the function returns before it configures
module_configure(args, is_bt) ==
    LET options == get_nginx_compile_options(args) IN
    IF options = <<>> THEN [cmd |-> <<>>, ret |-> "false"]
    ELSE IF ~(is_bt \/ \E j \in 1..Len(options) : is_key(options[j], "with-compat"))
    THEN [cmd |-> <<>>, ret |-> "false"]
    ELSE [cmd |-> <<Opt("prefix", "nginx_path")>> \o options_words(options, 1)
                    \o <<ConnectorArg>>,
          ret |-> "true"]

\* the configure command of compile_dynamic_module for one argument string
CompileDynamicModuleArgs ==
    /\ Idle
    /\ prog \in {"none", "configure"}
    /\ \E args \in ArgLists :
          /\ prog' = "configure"
          /\ call' = [op |-> "configure_command", impl |-> "compile_dynamic_module",
                      args |-> args, cmd |-> dynamic_module_configure(args)]
          /\ ret' = "true"
          /\ UNCHANGED <<log, dest, repoCache, gitCache, fileCache, host, repo, work, slots>>

\* the configure command of build_nginx_module for one argument string
BuildNginxModuleArgs ==
    /\ Idle
    /\ prog \in {"none", "configure"}
    /\ \E args \in ArgLists, is_bt \in BOOLEAN :
          LET r == module_configure(args, is_bt) IN
          /\ prog' = "configure"
          /\ call' = [op |-> "configure_command", impl |-> "build_nginx_module",
                      args |-> args, cmd |-> r.cmd]
          /\ ret' = r.ret
          /\ UNCHANGED <<log, dest, repoCache, gitCache, fileCache, host, repo, work, slots>>

----------------------------------------------------------------------------
(* install_modsecurity.py compile_modsecurity and                          *)
(* modules/modsecurity_compiler.py build_modsecurity                       *)

\* ./build.sh, ./configure --disable-doxygen-doc, make, make install
CompileCommands ==
    <<Cmd("generate", 1), Cmd("configure", 1), Cmd("make", 1), Cmd("make_install", 1)>>

\* failAt: the command that exits non-zero, 0 when all exit 0; artifact: make
\* leaves libmodsecurity.so.  lib: the library exists when the call ends.
run_compile_commands(l, failAt, artifact) ==
    [log |-> l \o SubSeq(CompileCommands, 1, IF failAt = 0 THEN Len(CompileCommands) ELSE failAt),
     ret |-> IF failAt = 0 THEN "true" ELSE "false",
     lib |-> artifact /\ (failAt = 0 \/ failAt > 3)]

\* install_modsecurity.py compile_modsecurity(modsec_dir): os.chdir raises
\* when the directory is missing
compile_modsecurity(dirExists, failAt, artifact) ==
    IF ~dirExists THEN [log |-> <<>>, ret |-> "false", lib |-> FALSE]
    ELSE run_compile_commands(<<>>, failAt, artifact)

\* modules/modsecurity_compiler.py build_modsecurity(build_dir); subs: how
\* git submodule init and update of its init_git_submodules end
compiler_build_modsecurity(dirExists, subs, failAt, artifact) ==
    LET s == compiler_init_git_submodules([git |-> TRUE], subs) IN
    IF ~dirExists THEN [log |-> <<>>, ret |-> "false", lib |-> FALSE]
    ELSE IF s.ret = "false" THEN [log |-> s.log, ret |-> "false", lib |-> FALSE]
    ELSE run_compile_commands(s.log, failAt, artifact)

CompileModsecurity ==
    /\ Idle
    /\ prog \in {"none", "compile"}
    /\ \E dirExists \in BOOLEAN, failAt \in 0..Len(CompileCommands), artifact \in BOOLEAN :
          LET r == compile_modsecurity(dirExists, failAt, artifact)
          IN  \E k \in 0..Len(r.log) :
                /\ prog' = "compile"
                /\ call' = [op |-> "compile_modsecurity", failAt |-> failAt,
                            artifact |-> artifact]
                /\ ret' = IF k = Len(r.log) THEN r.ret ELSE "killed"
                /\ log' = SubSeq(r.log, 1, k)
                /\ dest' = IF k = Len(r.log) /\ r.lib THEN Full(0) ELSE Absent
                /\ UNCHANGED <<repoCache, gitCache, fileCache, host, repo, work, slots>>

CompilerBuildModsecurity ==
    /\ Idle
    /\ prog \in {"none", "compile"}
    /\ \E dirExists \in BOOLEAN, subs \in SubmodulePasses,
          failAt \in 0..Len(CompileCommands), artifact \in BOOLEAN, gcc \in GccMajors :
          LET r == compiler_build_modsecurity(dirExists, subs, failAt, artifact)
          IN  \E k \in 0..Len(r.log) :
                /\ prog' = "compile"
                \* lines 148-150: if not check_gcc_version(): logger.warning(...)
                /\ call' = [op |-> "compiler_build_modsecurity", failAt |-> failAt,
                            artifact |-> artifact, dirExists |-> dirExists,
                            gcc_ok |-> check_gcc_version(gcc)]
                /\ ret' = IF k = Len(r.log) THEN r.ret ELSE "killed"
                /\ log' = SubSeq(r.log, 1, k)
                /\ dest' = IF k = Len(r.log) /\ r.lib THEN Full(0) ELSE Absent
                /\ UNCHANGED <<repoCache, gitCache, fileCache, host, repo, work, slots>>

----------------------------------------------------------------------------
(* main of the three installers: install.py, install_modsecurity.py and    *)
(* legacy/install_modsecurity_original.py                                  *)
(*                                                                         *)
(* work.exists: the build working directory exists; work.tree: the         *)
(* ModSecurity source tree in it.  A main runs its stages in order; what a *)
(* stage does inside is modelled by the sections above, here a stage is    *)
(* the commands it stands for and its outcome.  ran: the outcome of each   *)
(* stage, "notrun" for a stage the run did not reach and "skipped" for one *)
(* it passed over or does not have.                                        *)

\* a source tree in which the library has been built
Built == [kind |-> "built", src |-> 0]

NoWork == [exists |-> FALSE, tree |-> Absent]

\* the stages of the pipeline
Stages == {"dependencies", "fetch", "core", "module", "verify", "configure"}

NotRun == [s \in Stages \cup {"restart"} |-> "notrun"]

Ran(s, stage, o) == [s EXCEPT !.ran[stage] = o]

\* a stage that is reached: the command that stands for it, and its outcome
Stage(s, c, stage, o) == Ran(Logged(s, c, 0), stage, o)

MainStart(w0) == [log |-> <<>>, work |-> w0, ran |-> NotRun]

\* the states a fetch and core build go through.  fetch: the command that
\* fetches, "none" when the tree that is there is taken as it is; o: "ok",
\* "fetch_fail", "core_fail", or "present" (legacy: the module is installed
\* and the build is passed over after the fetch)
fetch_and_build(s, fetch, o) ==
    LET f == IF fetch = "none" THEN Ran(s, "fetch", "skipped")
             ELSE Stage(s, fetch, "fetch", IF o = "fetch_fail" THEN "fail" ELSE "ok")
        g == [f EXCEPT !.work.tree = Full(0)]
        c == Stage(g, "configure", "core", IF o = "core_fail" THEN "fail" ELSE "ok")
        m == Logged(c, "make", 0)
    IN  CASE o = "fetch_fail" -> <<f>>
          [] o = "present"    -> <<f, Ran(g, "core", "skipped")>>
          [] o = "core_fail"  -> <<f, g, c, m>>
          [] OTHER            -> <<f, g, c, [m EXCEPT !.work.tree = Built]>>

\* the configuration files are written (prep_fail: that fails), nginx -t
\* tests the modified configuration
configure_stage(s, o) ==
    IF o = "prep_fail" THEN <<Ran(s, "configure", "fail")>>
    ELSE <<Stage(s, "nginx_test", "configure", IF o = "ok" THEN "ok" ELSE "fail")>>

restart_stage(s, o) ==
    IF o = "skipped" THEN <<Ran(s, "restart", "skipped")>>
    ELSE <<Stage(s, "restart", "restart", o)>>

InstallPyInputs ==
    [pre : BOOLEAN, deps : {"ok", "fail", "skipped"},
     build : {"ok", "fetch_fail", "core_fail"}, module : {"ok", "fail"},
     conf : {"ok", "prep_fail", "test_fail"}, restart : {"ok", "fail", "skipped"}]

\* install.py main(), lines 88-236.  pre: root, a supported system and an
\* installed nginx.  download_and_build_modsecurity of
\* modules/modsecurity_compiler.py downloads the archive unless it is there,
\* extracts it and renames the extracted directory to ModSecurity: os.rename
\* raises when a ModSecurity tree is there already, and the handler of
\* line 233 turns every exception into exit code 1.
install_py_main(w0, i) ==
    LET s0 == MainStart(w0)
        s1 == [s0 EXCEPT !.work.exists = TRUE]
        s2 == IF i.deps = "skipped" THEN Ran(s1, "dependencies", "skipped")
              ELSE Stage(s1, "install_dependencies", "dependencies", i.deps)
        b  == IF path_exists(w0.tree)
              THEN <<Ran(Ran(s2, "fetch", "skipped"), "core", "fail")>>
              ELSE fetch_and_build(s2, "curl", i.build)
        s4 == Ran(Stage(Last(b), "module", "module", i.module), "verify", "skipped")
        c  == configure_stage(s4, i.conf)
        r  == restart_stage(Last(c), i.restart)
    IN  IF ~i.pre THEN [tr |-> <<s0>>, ret |-> "1"]
        ELSE IF i.deps = "fail" THEN [tr |-> <<s0, s1, s2>>, ret |-> "1"]
        ELSE IF Last(b).ran["core"] # "ok" THEN [tr |-> <<s0, s1, s2>> \o b, ret |-> "1"]
        ELSE IF i.module = "fail" THEN [tr |-> <<s0, s1, s2>> \o b \o <<s4>>, ret |-> "1"]
        ELSE IF i.conf # "ok" THEN [tr |-> <<s0, s1, s2>> \o b \o <<s4>> \o c, ret |-> "1"]
        ELSE [tr |-> <<s0, s1, s2>> \o b \o <<s4>> \o c \o r, ret |-> "0"]

MonolithInputs ==
    [root : BOOLEAN, force : BOOLEAN, deps : {"ok", "fail", "skipped"},
     build : {"ok", "fetch_fail", "core_fail"},
     install : {"ok", "present", "build_fail", "test_fail", "restart_fail"}]

\* install_modsecurity.py main(), lines 2009-2093: dependencies,
\* download_modsecurity (clone and compile in DEFAULT_BUILD_DIR),
\* install_modsecurity_nginx (module build, configuration, nginx -t, restart);
\* sys.exit(0 if success else 1).  clone_or_update_repo takes a tree that
\* is there as it is unless force_update is on, compile_modsecurity runs in
\* either case.  install "present": the module file is there and
\* force_update is off.
monolith_main(w0, i) ==
    LET s0 == MainStart(w0)
        s1 == IF i.deps = "skipped" THEN Ran(s0, "dependencies", "skipped")
              ELSE Stage(s0, "install_dependencies", "dependencies", i.deps)
        s2 == [s1 EXCEPT !.work.exists = TRUE]
        b  == IF path_exists(w0.tree) /\ ~i.force
              THEN fetch_and_build(s2, "none", IF i.build = "fetch_fail" THEN "ok" ELSE i.build)
              ELSE fetch_and_build(s2, "clone", i.build)
        p  == Ran(Ran(Ran(Ran(Last(b), "module", "skipped"), "verify", "skipped"),
                      "configure", "skipped"), "restart", "skipped")
        m  == Ran(Stage(Last(b), "module", "module",
                        IF i.install = "build_fail" THEN "fail" ELSE "ok"),
                  "verify", "skipped")
        c  == configure_stage(m, IF i.install = "test_fail" THEN "test_fail" ELSE "ok")
        r  == restart_stage(Last(c), IF i.install = "restart_fail" THEN "fail" ELSE "ok")
        t  == <<s0, s1, s2>> \o b
    IN  IF ~i.root THEN [tr |-> <<s0>>, ret |-> "1"]
        ELSE IF i.deps = "fail" THEN [tr |-> <<s0, s1>>, ret |-> "1"]
        ELSE IF Last(b).ran["core"] # "ok" THEN [tr |-> t, ret |-> "1"]
        ELSE IF i.install = "present" /\ ~i.force THEN [tr |-> Append(t, p), ret |-> "0"]
        ELSE IF i.install = "build_fail" THEN [tr |-> Append(t, m), ret |-> "1"]
        ELSE IF i.install = "test_fail" THEN [tr |-> Append(t, m) \o c, ret |-> "1"]
        ELSE [tr  |-> Append(t, m) \o c \o r,
              ret |-> IF i.install = "restart_fail" THEN "1" ELSE "0"]

LegacyMainInputs ==
    [root : BOOLEAN, mirrors : BOOLEAN, deps : {"ok", "fail", "skipped"},
     build : {"ok", "fetch_fail", "core_fail", "present"}, module : {"ok", "fail"},
     verify : {"compatible", "binaryIncompatible", "failed"},
     conf : {"ok", "prep_fail", "test_fail"}, restart : {"ok", "fail"}]

\* the finally clause of the legacy main, lines 1739-1743, and its
\* cleanup_handler, lines 53-59: shutil.rmtree(BUILD_DIR)
remove_build_dir(s) == [s EXCEPT !.work = NoWork]

\* legacy main(), lines 1672-1743.  mirrors: fix_centos_yum_mirrors succeeds
\* (or is not called); a dependency installation that fails is logged and
\* the run goes on; download_modsecurity clones into BUILD_DIR/modsecurity
\* (git refuses when that tree is there) and compiles unless the module is
\* installed and force_update is off ("present": install_modsecurity_nginx
\* then returns at once); a module that fails its compatibility test is
\* renamed and the run goes on.  Every way out passes the finally clause.
legacy_main(w0, i) ==
    LET s0 == MainStart(w0)
        s1 == [s0 EXCEPT !.work.exists = TRUE]
        s2 == IF i.deps = "skipped" THEN Ran(s1, "dependencies", "skipped")
              ELSE Stage(s1, "install_dependencies", "dependencies", i.deps)
        b  == fetch_and_build(s2, "clone", IF path_exists(w0.tree) THEN "fetch_fail" ELSE i.build)
        p  == Ran(Ran(Last(b), "module", "skipped"), "verify", "skipped")
        m  == Stage(Last(b), "module", "module", i.module)
        v  == Stage(m, "test", "verify", IF i.verify = "compatible" THEN "ok" ELSE "fail")
        a  == IF i.build = "present" THEN <<p>>
              ELSE IF i.module = "fail" THEN <<m>> ELSE <<m, v>>
        c  == configure_stage(Last(a), i.conf)
        r  == restart_stage(Last(c), i.restart)
        t  == <<s0, s1, s2>> \o b
        e  == IF ~i.root THEN [tr |-> <<s0>>, ret |-> "1"]
              ELSE IF ~i.mirrors THEN [tr |-> <<s0, s1>>, ret |-> "1"]
              ELSE IF Last(b).ran["core"] \notin {"ok", "skipped"} THEN [tr |-> t, ret |-> "1"]
              ELSE IF Last(a).ran["module"] = "fail" THEN [tr |-> t \o a, ret |-> "1"]
              ELSE IF i.conf # "ok" THEN [tr |-> t \o a \o c, ret |-> "1"]
              ELSE [tr |-> t \o a \o c \o r, ret |-> "0"]
    IN  [tr |-> Append(e.tr, remove_build_dir(Last(e.tr))), ret |-> e.ret]

Signals == {"none", "SIGINT", "SIGTERM"}

\* what SIGINT or SIGTERM does to a run that stands at s.  install.py
\* catches KeyboardInterrupt at line 229 and exits with 1, SIGTERM ends the
\* process; install_modsecurity.py never calls setup_signal_handlers, both
\* signals end the process; the legacy installer registers cleanup_handler
\* for both at lines 62-63.
interrupt(impl, s, sig) ==
    CASE impl = "legacy"  -> [s |-> remove_build_dir(s), ret |-> "1"]
      [] impl = "install" /\ sig = "SIGINT" -> [s |-> s, ret |-> "1"]
      [] OTHER            -> [s |-> s, ret |-> sig]

\* one run of an installer: to its end, to a signal after k steps, or to
\* the loss of the process after k steps
RunMain(impl, r, sig, k) ==
    LET e == IF sig # "none" THEN interrupt(impl, r.tr[k], sig)
             ELSE [s |-> r.tr[k], ret |-> IF k = Len(r.tr) THEN r.ret ELSE "killed"]
    IN  /\ call' = [op |-> "main", impl |-> impl, sig |-> sig, ran |-> e.s.ran,
                    work0 |-> work]
        /\ ret' = e.ret
        /\ log' = e.s.log
        /\ work' = e.s.work
        /\ UNCHANGED <<dest, repoCache, gitCache, fileCache, host, repo, slots>>

InstallPyMain ==
    /\ Idle
    /\ prog \in {"none", "install_py_main"}
    /\ prog' = "install_py_main"
    /\ \E i \in InstallPyInputs, sig \in Signals :
          LET r == install_py_main(work, i)
          IN  \E k \in Idx(r.tr) : RunMain("install", r, sig, k)

MonolithMain ==
    /\ Idle
    /\ prog \in {"none", "monolith_main"}
    /\ prog' = "monolith_main"
    /\ \E i \in MonolithInputs, sig \in Signals :
          LET r == monolith_main(work, i)
          IN  \E k \in Idx(r.tr) : RunMain("monolith", r, sig, k)

LegacyMainRun ==
    /\ Idle
    /\ prog \in {"none", "legacy_main"}
    /\ prog' = "legacy_main"
    /\ \E i \in LegacyMainInputs, sig \in Signals :
          LET r == legacy_main(work, i)
          IN  \E k \in Idx(r.tr) : RunMain("legacy", r, sig, k)

----------------------------------------------------------------------------
(* Fetch and build of the library in the working directory:                *)
(* modules/modsecurity_builder.py download_and_build_modsecurity and       *)
(* install_modsecurity.py download_modsecurity.  s.dest is the tree        *)
(* <build_dir>/ModSecurity, kept in work.tree from one call to the next.   *)

\* max_retries=2
DefaultMaxRetries == 2

\* the passes of the build loop: make fails or the library is built
PipelineRuns ==
    {o \in BuildRuns(DefaultMaxRetries, "script") : \A j \in Idx(o) : o[j] \in {"make_fail", "ok"}}

\* git and the filesystem do not fail on the way: the cache entry is copied
\* and written whole, the submodules are there or the tree has none
PipelineEnvs ==
    {e \in GitEnvs : /\ e.sub \in {"none", "initialized"}
                     /\ e.copyFail = "none" /\ e.putFail = "none" /\ e.resetOk}

\* every mirror of the repository is up, or every mirror is down
PipelineMirrors == {[j \in 1..NumSources |-> "up"], [j \in 1..NumSources |-> "down"]}

\* the states a call goes through while it runs the commands l from state s
RunLog(s, l) == [j \in Idx(l) |-> [s EXCEPT !.log = @ \o SubSeq(l, 1, j)]]

\* modules/modsecurity_builder.py download_and_build_modsecurity(build_dir):
\* try_alternate_repo into modsec_dir, init_git_submodules (its result is
\* logged only), build_modsecurity(modsec_dir, verbose).  c: what its call
\* of try_alternate_repo did, the trace and the value returned.
download_and_build_modsecurity(c, env, outs) ==
    LET g  == init_git_submodules([git |-> TRUE, gitmodules |-> env.sub # "none",
                                   subs |-> "initialized", calls |-> 0], TRUE, <<"ok">>)
        t1 == c.tr \o RunLog(Last(c.tr), g.log)
        b  == build_modsecurity(TRUE, Last(t1).dest.kind = "built", "script", outs,
                                DefaultMaxRetries)
        t2 == t1 \o RunLog(Last(t1), b.log)
    IN  IF c.ret # "true" THEN [tr |-> c.tr, ret |-> "false"]
        ELSE [tr  |-> IF b.lib THEN Upd(t2, [Last(t2) EXCEPT !.dest = Built]) ELSE t2,
              ret |-> b.ret]

DownloadAndBuildModsecurity ==
    /\ Idle
    /\ prog \in {"none", "builder_pipeline"}
    /\ \E urls \in [1..2 -> {"up", "down"}], use_cache \in BOOLEAN, env \in PipelineEnvs,
          outs \in PipelineRuns :
          LET s0 == [dest |-> work.tree, cache |-> gitCache, log |-> <<>>] IN
          \E c \in {try_alternate_repo(<<s0>>, urls, use_cache, env)} :
          \E r \in {download_and_build_modsecurity(c, env, outs)} :
              \E k \in Idx(r.tr) :
                /\ prog' = "builder_pipeline"
                /\ call' = [op |-> "download_and_build_modsecurity", work0 |-> work]
                /\ ret' = IF k = Len(r.tr) THEN r.ret ELSE "killed"
                /\ log' = r.tr[k].log
                /\ dest' = r.tr[k].dest
                /\ gitCache' = r.tr[k].cache
                /\ work' = [exists |-> TRUE, tree |-> r.tr[k].dest]
                /\ UNCHANGED <<repoCache, fileCache, host, repo, slots>>

\* install_modsecurity.py download_modsecurity(force_update), lines 1407-1447:
\* clone_or_update_repo("modsecurity", modsec_dir, force_update),
\* compile_modsecurity(modsec_dir), then clone_or_update_repo for the
\* connector and for the rule set (a failure of the last one is logged
\* only).  others: the connector and rule-set trees are there ("present"),
\* or the clone of the connector succeeds ("ok") or fails ("fail").  c: what
\* its first call of clone_or_update_repo did.
download_modsecurity(c, force, failAt, artifact, others) ==
    LET a  == Last(c.tr)
        b  == compile_modsecurity(TRUE, failAt, artifact)
        t1 == c.tr \o RunLog(a, b.log)
        t2 == Upd(t1, [Last(t1) EXCEPT
                          !.dest = IF b.lib \/ a.dest.kind = "built" THEN Built ELSE @])
        e  == Logged(Last(t2), "clone_connector", 0)
    IN  IF c.ret # "true" THEN [tr |-> c.tr, ret |-> "false"]
        ELSE IF b.ret # "true" THEN [tr |-> t2, ret |-> "false"]
        ELSE IF others = "present" /\ ~force THEN [tr |-> t2, ret |-> "true"]
        ELSE IF others = "fail" THEN [tr |-> Append(t2, e), ret |-> "false"]
        ELSE [tr |-> t2 \o <<e, Logged(e, "clone_rules", 0)>>, ret |-> "true"]

DownloadModsecurity ==
    /\ Idle
    /\ prog \in {"none", "monolith_download"}
    /\ \E force \in BOOLEAN, urls \in PipelineMirrors, failAt \in 0..Len(CompileCommands),
          artifact \in BOOLEAN, others \in {"present", "ok", "fail"} :
          LET s0 == [dest |-> work.tree, cache |-> repoCache, log |-> <<>>] IN
          \E c \in {clone_or_update_repo(TRUE, force, urls, "none", "none", s0)} :
          \E r \in {download_modsecurity(c, force, failAt, artifact, others)} :
              \E k \in Idx(r.tr) :
                /\ prog' = "monolith_download"
                /\ call' = [op |-> "download_modsecurity", force |-> force, work0 |-> work]
                /\ ret' = IF k = Len(r.tr) THEN r.ret ELSE "killed"
                /\ log' = r.tr[k].log
                /\ dest' = r.tr[k].dest
                /\ repoCache' = r.tr[k].cache
                /\ work' = [exists |-> TRUE, tree |-> r.tr[k].dest]
                /\ UNCHANGED <<gitCache, fileCache, host, repo, slots>>

----------------------------------------------------------------------------

Init ==
    /\ prog = "none"
    /\ call = [op |-> "none"]
    /\ ret = "none"
    /\ log = <<>>
    /\ dest = Absent
    /\ repoCache = Absent
    /\ gitCache = Absent
    /\ fileCache = Absent
    /\ host = [module |-> "absent", incompatible |-> FALSE, load_module |-> "absent",
               verify |-> "none", built |-> FALSE, testconf |-> FALSE, stage |-> "start"]
    /\ repo = NoRepo
    /\ work = NoWork
    /\ slots = NoSlots

\* The call is over (returned, or its process is gone): what stays is the
\* filesystem outside the build directory.  Contents now predate the next call.
Return ==
    /\ ~Idle
    /\ call' = [op |-> "none"]
    /\ ret' = "none"
    /\ log' = <<>>
    /\ dest' = Absent
    /\ repoCache' = Aged(repoCache)
    /\ gitCache' = Aged(gitCache)
    /\ fileCache' = Aged(fileCache)
    /\ work' = [work EXCEPT !.tree = Aged(@)]
    /\ UNCHANGED <<prog, host, repo, slots>>

Next ==
    \/ CloneOrUpdateRepo
    \/ TryAlternateRepo
    \/ DownloadFileWithFallback
    \/ DownloadFile
    \/ DownloadFileAt
    \/ CacheFileExists
    \/ DownloadConnector
    \/ BuildModsecurity
    \/ LegacyMain
    \/ LegacyInstallModsecurityNginx
    \/ LegacyConfigureModsecurity
    \/ InstallModsecurityNginx
    \/ BuildNginxModule
    \/ InitGitSubmodules
    \/ CompilerInitGitSubmodules
    \/ CompileDynamicModuleArgs
    \/ BuildNginxModuleArgs
    \/ CompileModsecurity
    \/ CompilerBuildModsecurity
    \/ InstallPyMain
    \/ MonolithMain
    \/ LegacyMainRun
    \/ DownloadAndBuildModsecurity
    \/ DownloadModsecurity
    \/ Return

Spec == Init /\ [][Next]_vars

----------------------------------------------------------------------------
(* Properties                                                               *)

\* the positions of the log holding command c
At(c) == {j \in Idx(log) : log[j].cmd = c}

\* the call ran to its return statement
Completed == ret \in {"true", "false"}

\* commands that reach a mirror
NetCmds == {"clone", "pull", "curl", "wget"}

NetLog == SelectSeq(log, LAMBDA c : c.cmd \in NetCmds)

\* commands that try a mirror of a list, reached or not
Attempted == {log[i].m : i \in {j \in Idx(log) : log[j].cmd \in NetCmds \cup {"clone_refused"}}}

SomeUp(urls) == \E i \in DOMAIN urls : urls[i] = "up"

FirstUp(urls) == CHOOSE i \in DOMAIN urls : urls[i] = "up" /\ \A j \in 1..(i - 1) : urls[j] # "up"

\* success exactly when a mirror is reachable, the artifact at the destination
\* is the one of the first reachable mirror, and no later mirror was contacted
FirstReachable(urls, artifact(_)) ==
    /\ ret = "true" <=> SomeUp(urls)
    /\ SomeUp(urls) =>
          /\ dest = artifact(FirstUp(urls))
          /\ \A i \in Idx(NetLog) : NetLog[i].m <= FirstUp(urls)

\* a finished call of clone_or_update_repo that went to the mirrors with
\* nothing in the cache
RepoResolvedFromEmptyCache ==
    /\ call.op = "clone_or_update_repo" /\ Completed
    /\ call.known /\ (call.force \/ ~path_exists(call.dest0))
    /\ ~nonempty(call.cache0)
    /\ \E i \in DOMAIN call.urls : call.urls[i] # "unset"

\* a finished call of try_alternate_repo that found nothing in the cache and
\* whose local copies did not fail
AlternateResolvedFromEmptyCache ==
    /\ call.op = "try_alternate_repo" /\ Completed
    /\ ~nonempty(call.cache0)
    /\ call.env.copyFail = "none"

\* a finished call of download_file_with_fallback with a download tool
\* installed and a non-empty list of mirrors that are reachable or not
FileResolved ==
    /\ call.op = "download_file_with_fallback" /\ Completed
    /\ call.tool # "none"
    /\ Len(call.urls) >= 1
    /\ \A i \in DOMAIN call.urls : call.urls[i] \in {"up", "down"}

\* C1: starting from an empty cache, for every non-empty mirror list and every
\* assignment of reachable/unreachable to its mirrors, resolution succeeds if
\* and only if some mirror is reachable, the artifact left at the destination
\* comes from the first reachable mirror in list order, and no mirror after
\* that one is contacted.
C1_FirstReachableMirror ==
    /\ RepoResolvedFromEmptyCache => FirstReachable(call.urls, Full)
    /\ AlternateResolvedFromEmptyCache => FirstReachable(call.urls, Full)
    /\ FileResolved => FirstReachable(call.urls, Archive)

\* the primary source is down, the secondary is up and the clone came from it
C1_Witness ==
    /\ RepoResolvedFromEmptyCache
    /\ call.urls[1] = "down" /\ call.urls[2] = "up"
    /\ ret = "true" /\ dest = Full(2)
    /\ Len(NetLog) = 2

\* a call that finds a complete entry in the cache and whose local copies
\* and submodule commands do not fail
ValidCacheHit ==
    \/ /\ call.op = "try_alternate_repo"
       /\ call.use_cache /\ call.cache0.kind = "full"
       /\ call.env.copyFail = "none" /\ call.env.sub # "init_fail"
    \/ /\ call.op = "download_file"
       /\ call.use_cache /\ call.cache0.kind = "archive"
       /\ call.copyFail = "none"
    \/ /\ call.op = "clone_or_update_repo"
       /\ call.known /\ ~call.force /\ ~path_exists(call.dest0)
       /\ call.cache0.kind = "full" /\ call.copyFail = "none"

\* C6: when the cache already holds a valid entry for the requested artifact,
\* the call returns success having performed no network operation (no git
\* clone or pull, no curl or wget).
C6_CacheHitWithoutNetwork ==
    (Completed /\ ValidCacheHit) => (ret = "true" /\ NetLog = <<>>)

\* the calls that look an entry up in the cache
LooksUp ==
    \/ call.op = "cache_file_exists"
    \/ call.op = "download_file" /\ call.use_cache
    \/ call.op = "try_alternate_repo" /\ call.use_cache
    \/ call.op = "clone_or_update_repo" /\ call.known
                                        /\ (call.force \/ ~path_exists(call.dest0))

\* C7: every cache lookup reports a miss when the entry at the cache path is
\* missing, is a zero-byte file or is an empty directory.
C7_EmptyEntryIsMiss ==
    (LooksUp /\ call.cache0.kind \in {"absent", "empty"}) => ~call.hit

\* the cache slot the call in progress writes to
Slot ==
    CASE call.op = "clone_or_update_repo" -> repoCache
      [] call.op = "try_alternate_repo"   -> gitCache
      [] OTHER                            -> fileCache

\* C8: if the process is interrupted while an entry is being written to the
\* cache, the slot is absent, the complete previous entry or the complete new
\* entry, and no later lookup returns a partially written entry as a hit.
C8_NoPartialEntry ==
    /\ (ret = "killed" /\ call.op \in {"clone_or_update_repo", "try_alternate_repo",
                                       "download_file"})
          => (Slot.kind # "partial" \/ Slot = call.cache0)
    /\ (LooksUp /\ call.hit) => call.cache0.kind # "partial"

\* C9: whatever way the fetch from a mirror that is not the last fails
\* (non-zero exit, empty download, an archive that fails verification), the
\* next mirror is attempted, and failure is reported only after every mirror
\* of the list has been attempted.
C9_EveryMirrorAttempted ==
    /\ (call.op = "download_file_with_fallback" /\ Completed /\ call.tool # "none") =>
          /\ ret = "false" => Attempted = DOMAIN call.urls
          /\ \A i \in 1..(Len(call.urls) - 1) :
                (i \in Attempted /\ call.urls[i] # "up") => (i + 1) \in Attempted
    /\ (call.op = "download_connector" /\ ~path_exists(call.dest0)
                                       /\ ret \in {"false", "raised"}) =>
          Attempted = 1..NumConnectorUrls
    /\ (call.op = "clone_or_update_repo" /\ ret = "false" /\ call.known) =>
          Attempted = {i \in DOMAIN call.urls : call.urls[i] # "unset"}

\* C10: a downloaded file that fails archive integrity verification is never
\* written to, nor left in, the cache.
C10_NoCorruptArchiveCached ==
    fileCache.kind # "garbage"

\* the last call ran to its end
Ended == ret \in {"true", "false", "returned", "exit"}

\* C2: the module is installed only after it verified compatible: the module
\* file built by this run is at the canonical install path, or a load_module
\* directive has been written by this run, only if the compatibility test has
\* returned compatible in this run; after a binaryIncompatible result no
\* install step is executed.
C2_InstalledOnlyIfCompatible ==
    /\ (Ended /\ host.built /\ (host.module = "new" \/ host.load_module = "new"))
          => host.verify = "compatible"
    /\ host.verify = "binaryIncompatible" => host.load_module # "new"

\* C3: for any built module whose verify status is binaryIncompatible, in
\* every state after the test has completed the module file is stored as
\* <canonical>.incompatible and no file exists at the canonical module path.
C3_IncompatibleModuleQuarantined ==
    host.verify = "binaryIncompatible" => (host.incompatible /\ host.module = "absent")

\* the calls that build the nginx module
BuildsModule ==
    call.op \in {"legacy_install_modsecurity_nginx", "install_modsecurity_nginx",
                 "build_nginx_module"}

\* C4: when nginx -V shows no "configure arguments:" line, the module build
\* fails before any configure or compile step runs; it never continues with
\* an empty, default or guessed argument list.
C4_NoBuildWithoutHostArgs ==
    (BuildsModule /\ call.args = "none") => (At("configure") \cup At("make") = {})

\* C5: for every max_retries >= 0 and every pattern of step failures,
\* build_modsecurity runs make at most max_retries + 1 times, and every
\* configure or make of a pass after the first is preceded by a make clean
\* run since the previous pass failed.
C5_BoundedBuildAttempts ==
    call.op = "build_modsecurity" =>
       /\ Cardinality(At("make")) <= call.max_retries + 1
       /\ \A j \in At("configure") \cup At("make") :
             log[j].m > 1 =>
                \E k \in At("clean") :
                   /\ k < j
                   /\ log[k].m = log[j].m - 1
                   /\ \A i \in (k + 1)..j : log[i].m = log[j].m

\* two passes failed, each followed by make clean, and the third built the library
C5_Witness ==
    /\ call.op = "build_modsecurity" /\ call.max_retries = 2
    /\ ret = "true"
    /\ Cardinality(At("make")) = 3
    /\ Cardinality(At("clean")) = 2

\* a finished call of a caching resolver that returned success with a
\* destination fetched from a mirror during the call
FetchedWithCaching ==
    /\ ret = "true" /\ dest.src > 0
    /\ \/ call.op = "clone_or_update_repo"
       \/ call.op \in {"try_alternate_repo", "download_file"} /\ call.use_cache

\* C11: after a resolve that returns success through a network fetch with
\* caching enabled, the cache slot of the artifact holds a non-empty copy of
\* what was fetched, also when the slot held a zero-byte entry before.
C11_FetchedIsCached ==
    FetchedWithCaching => (nonempty(Slot) /\ Slot = dest)

\* a finished call of init_git_submodules on a repository whose submodules
\* were all initialized, after an earlier call on the same unmodified tree
SecondCallOnInitialized ==
    /\ call.op = "init_git_submodules" /\ Ended
    /\ call.repo0.calls >= 1
    /\ call.repo0.git /\ call.repo0.gitmodules /\ call.repo0.subs = "initialized"

\* C12: calling init_git_submodules twice in succession on an unmodified
\* repository whose submodules are all initialized, the second call returns
\* success and runs no subprocess (no git submodule status, init or update).
C12_SecondCallRunsNothing ==
    SecondCallOnInitialized => (ret = "true" /\ log = <<>>)

\* C13: for a repository directory that has no .gitmodules file,
\* init_git_submodules of modules/git_manager.py returns success without
\* running any subprocess.
C13_NoGitmodulesNoSubprocess ==
    (/\ call.op = "init_git_submodules" /\ call.impl = "git_manager"
     /\ call.repo0.git /\ ~call.repo0.gitmodules)
        => (ret = "true" /\ log = <<>>)

\* a second call on a repository without .gitmodules has returned
C13_Witness ==
    /\ call.op = "init_git_submodules" /\ call.impl = "git_manager"
    /\ call.repo0.git /\ ~call.repo0.gitmodules /\ call.repo0.calls = 1
    /\ ret = "true" /\ log = <<>>

\* C14: the nginx source tree used to build the dynamic module has exactly
\* the version reported by the installed nginx binary: whenever the module
\* build's configure step runs, the directory it runs in holds the sources of
\* that version and of no other.
C14_SourceTreeOfHostVersion ==
    BuildsModule =>
       \A j \in At("configure") :
          /\ \E k \in At("chdir") : k < j
          /\ \A k \in At("chdir") : k < j => log[k].m = "host"

\* an installation-prefix or module-add option
Stripped(a) == a.d = 2 /\ a.k \in {"prefix", "add-module", "add-dynamic-module"}

\* the host's arguments in their order without the installation-prefix and
\* module-add arguments (an option written without '=' goes with the word
\* that is its value)
StripArgs(args) ==
    LET drop == {j \in 1..Len(args) :
                    \/ Stripped(args[j])
                    \/ /\ j > 1 /\ args[j].d = 0
                       /\ Stripped(args[j - 1]) /\ args[j - 1].v = "none"}
        keep(j) == IF j \in drop THEN <<>> ELSE <<args[j]>>
        F[j \in 0..Len(args)] == IF j = 0 THEN <<>> ELSE F[j - 1] \o keep(j)
    IN  F[Len(args)]

\* C15: for every host configure-argument string, the argument list passed to
\* ./configure for the module build is the host's arguments in their original
\* order with every --prefix and every --add-module / --add-dynamic-module
\* argument removed, followed by exactly one --add-dynamic-module=<connector_dir>.
C15_ConfigureArguments ==
    (call.op = "configure_command" /\ ret = "true") =>
        call.cmd = StripArgs(call.args) \o <<ConnectorArg>>

\* the last call is the legacy install_modsecurity_nginx and its
\* compatibility test has produced a result
LegacyVerified ==
    /\ call.op = "legacy_install_modsecurity_nginx"
    /\ At("test") # {} /\ host.verify # "none"

\* C16: the compatibility test maps the result of nginx -t to a status: exit
\* code 0 gives compatible, a non-zero exit with "not binary compatible" in
\* stderr gives binaryIncompatible, every other non-zero exit gives
\* configError ("failed"); and the three are distinguished in what is done
\* next: a configError is not handled the way a binaryIncompatible result is
\* (quarantine the module and return normally).
C16_VerifyOutcomes ==
    LegacyVerified =>
       LET o == nginx_t(env_conf, call.abi, call.loads, call.liveOk) IN
       /\ o = "ok" => host.verify = "compatible"
       /\ o = "incompatible" => host.verify = "binaryIncompatible"
       /\ o = "failed" => host.verify = "failed"
       /\ (Ended /\ host.verify = "failed") => ~(At("rename") # {} /\ ret = "returned")

\* C17: when the compatibility test ends with configError ("failed"), the
\* run aborts: the process exits non-zero and no later step of the pipeline
\* (configuration writing, server restart) executes.
C17_ConfigErrorAborts ==
    host.verify = "failed" =>
       /\ Ended => ret = "exit"
       /\ host.stage \notin {"installed", "configured"}
       /\ At("write_load_module") \cup At("restart") = {}

C19_TestReadsSyntheticOnly ==
    LegacyVerified =>
       /\ \A j \in At("test") : log[j].m = "synthetic"
       /\ host.verify = classify(nginx_t("synthetic", call.abi, FALSE, TRUE))

\* C20: every build operation (build_modsecurity, compile_modsecurity,
\* compile_dynamic_module) returns success only in a state where its expected
\* artifact file (libmodsecurity.so, ngx_http_modsecurity_module.so) exists,
\* even when all of its subprocesses exited with code 0.
C20_SuccessOnlyWithArtifact ==
    /\ (/\ call.op \in {"build_modsecurity", "compile_modsecurity",
                        "compiler_build_modsecurity"}
        /\ ret = "true") => path_exists(dest)
    /\ (call.op = "install_modsecurity_nginx" /\ At("copy") # {}) => host.built

\* the calls that build the library after a check of the compiler version
ChecksCompiler ==
    \/ call.op = "build_modsecurity"
    \/ call.op = "compiler_build_modsecurity" /\ call.dirExists

\* C21: when the detected compiler is below GCC 7 or its version cannot be
\* detected, the build ends in failure and runs neither the configure step
\* nor the compile step.
C21_OldToolchainStopsBuild ==
    (ChecksCompiler /\ ~call.gcc_ok) =>
        /\ At("configure") \cup At("make") = {}
        /\ Ended => ret = "false"

\* a run of an installer that was interrupted by SIGINT or SIGTERM
Interrupted == call.op = "main" /\ call.sig # "none"

\* a run of an installer that exited with code 0
Succeeded == call.op = "main" /\ call.sig = "none" /\ ret = "0"

\* C22: when the installer process ends after a successful run, or is
\* interrupted by SIGINT or SIGTERM at any point, the build working
\* directory has been removed.
C22_WorkDirRemoved == (Succeeded \/ Interrupted) => ~work.exists

\* a call of the fetch-and-build pipeline on a working directory in which a
\* build completed
OnCompletedBuild ==
    /\ call.op \in {"download_and_build_modsecurity", "download_modsecurity"}
    /\ call.work0.tree.kind = "built"

\* the fetch, configure and compile steps run for the library's tree
TreeSteps ==
    UNION {At(c) : c \in {"clone", "pull", "generate", "configure", "make", "make_install"}}

\* C23: a second invocation of the pipeline on a working directory in which
\* a build already completed either reuses the completed build (it runs no
\* fetch, configure or compile step for it) or fails; it never deletes or
\* rewrites the completed tree.
C23_CompletedBuildReused ==
    OnCompletedBuild =>
        /\ work.tree.kind = "built"
        /\ (ret = "true" => TreeSteps = {})
        /\ At("clone") = {}

\* every stage of the pipeline that was not skipped succeeded
AllSucceeded == \A s \in Stages : call.ran[s] \in {"ok", "skipped"}

\* a run of an installer that ended with an exit code
Exited == call.op = "main" /\ call.sig = "none" /\ ret \in {"0", "1"}

\* C24: the installer exits with code 0 if and only if every pipeline stage
\* that was not skipped (dependencies, fetch, core build, module build,
\* compatibility verification, configuration) succeeded; a failed stage
\* yields a non-zero exit code.  (A restart that fails after all of them is
\* left open.)
C24_ExitCode ==
    Exited => /\ ret = "0" => AllSucceeded
              /\ (AllSucceeded /\ call.ran["restart"] # "fail") => ret = "0"

\* what the last call would have done had its cache write succeeded
WithCacheWritten ==
    CASE call.op = "download_file" ->
             download_file([dest |-> Absent, cache |-> call.cache0, log |-> <<>>],
                           call.use_cache, call.outs, call.copyFail, "none")
      [] call.op = "clone_or_update_repo" ->
             clone_or_update_repo(call.known, call.force, call.urls, call.copyFail, "none",
                                  [dest |-> call.dest0, cache |-> call.cache0, log |-> <<>>])
      [] OTHER ->
             try_alternate_repo(<<[dest |-> call.dest0, cache |-> call.cache0, log |-> <<>>]>>,
                                call.urls, call.use_cache, [call.env EXCEPT !.putFail = "none"])

\* the cache as the last call left it
CacheNow ==
    CASE call.op = "download_file"        -> fileCache
      [] call.op = "clone_or_update_repo" -> repoCache
      [] OTHER                            -> gitCache

\* the last call fetched its artifact and then failed to write the cache
\* entry: with the write succeeding it returns success after a fetch, and
\* the cache it has left is not the one the successful write leaves
CacheWriteFailed ==
    /\ call.op \in {"download_file", "clone_or_update_repo", "try_alternate_repo"}
    /\ Ended
    /\ (IF call.op = "try_alternate_repo" THEN call.env.putFail ELSE call.putFail) # "none"
    /\ WithCacheWritten.ret = "true"
    /\ Last(WithCacheWritten.tr).dest.src > 0
    /\ Last(WithCacheWritten.tr).cache # CacheNow

\* C25: when writing the cache entry fails after a successful fetch, the
\* call still returns success, with the fetched artifact at its destination,
\* and raises no exception.
C25_CacheWriteFailureIsNoFailure ==
    CacheWriteFailed => (ret = "true" /\ dest = Last(WithCacheWritten.tr).dest)

C25_Witness ==
    /\ CacheWriteFailed
    /\ call.op = "download_file" /\ call.putFail = "partial"
    /\ ret = "true" /\ dest.kind = "archive" /\ fileCache.kind = "partial"

\* the last call was served from the cache, from a complete file, for an
\* identity for which download_file has saved a file to the cache before
ServedFromCache ==
    /\ call.op = "download_file_at"
    /\ ret = "true"
    /\ At("curl") = {}
    /\ call.cache0.kind \in Delivered
    /\ call.put0.kind \in Delivered

\* C26: once download_file has stored a file in the cache for an identity
\* (URL, version), a later download_file for that identity that is served
\* from the cache delivers that very file, whatever was written to the
\* cache for other identities in between.
C26_CacheRoundTrip == ServedFromCache => dest = call.put0

\* the configuration step of the last call exited non-zero with an error
\* output that has a "fatal error: <name>.h" line, and the call ran to its end
MissingHeaderReported ==
    /\ call.op \in {"build_modsecurity", "legacy_install_modsecurity_nginx"}
    /\ call.stderr # <<>>
    /\ Ended

\* C27: when the configuration step exits non-zero and its error output has a
\* missing-header line, the build ends in failure and the diagnostic it
\* reports names that header.
C27_MissingHeaderNamed ==
    MissingHeaderReported => (ret \in {"false", "exit"} /\ call.stderr \in call.named)

\* install_modsecurity_nginx has written the directives into a configuration
\* that had none, the test of the configuration has failed, and the call has
\* returned
ConfigTestFailed ==
    /\ call.op = "install_modsecurity_nginx"
    /\ call.load0 = "absent"
    /\ At("write_load_module") # {} /\ At("nginx_test") # {}
    /\ ~call.confOk
    /\ ret = "false"

\* C28: when the configuration test fails after install_modsecurity_nginx
\* has modified the nginx configuration, the modification is rolled back:
\* on return the configuration is what it was before the call.
C28_FailedConfigRolledBack == ConfigTestFailed => host.load_module = call.load0

\* the test of the modified configuration in the last call succeeded
ConfigTestPassed ==
    CASE call.op = "main" -> call.ran["configure"] = "ok"
      [] call.op \in {"install_modsecurity_nginx", "legacy_configure_modsecurity"} -> call.confOk
      [] OTHER -> FALSE

\* C29: nginx is restarted or reloaded only after nginx -t has tested the
\* modified configuration in the same run and has succeeded; no restart
\* follows a failed configuration test.
C29_RestartOnlyAfterTest ==
    \A j \in At("restart") :
        /\ \E t \in At("nginx_test") : t < j
        /\ ConfigTestPassed

C29_Witness ==
    /\ call.op = "legacy_configure_modsecurity"
    /\ call.confOk /\ ret = "returned"
    /\ At("nginx_test") # {} /\ At("restart") # {}

\* install_modsecurity_nginx, of install_modsecurity.py or of the legacy
\* installer, was called on a host with an installed module and has ended
OnInstalledModule ==
    /\ call.op \in {"install_modsecurity_nginx", "legacy_install_modsecurity_nginx"}
    /\ call.module0 # "absent"
    /\ Ended

\* C30: with force_update the installed module file is removed before the
\* replacement is fetched and built, so the module file that is there after
\* the call is the rebuilt one; without force_update the call returns
\* success and has fetched, built and changed nothing.
C30_ForceUpdateReplacesModule ==
    OnInstalledModule =>
        IF call.force
        THEN host.module # "absent" => (host.module = "new" /\ host.built)
        ELSE /\ ret \in {"true", "returned"}
             /\ log = <<>>
             /\ host.module = call.module0

====
